---------------------------- MODULE Spec2Model ----------------------------
(***************************************************************************)
(* A model of the poster editor: the CanvasState store of src/App.tsx,     *)
(* the pointer-gesture controller of src/components/CanvasArea.tsx (the    *)
(* mask-aware component, lines 305-748) and the side panel of              *)
(* src/unnamed/part_000 (the Controls component).                          *)
(*                                                                         *)
(* JavaScript numbers are modelled as exact rationals [n, d] in lowest     *)
(* terms with d > 0; IEEE rounding is not modelled.  null is modelled by   *)
(* the string "null" where the code holds a string (ids, data URIs) and by *)
(* the record NoRect where it holds an object.                             *)
(***************************************************************************)
EXTENDS Integers, Sequences, FiniteSets, TLC

(***************************************************************************)
(* Rational arithmetic.                                                    *)
(***************************************************************************)
Abs(k) == IF k < 0 THEN -k ELSE k

RECURSIVE Gcd(_, _)
Gcd(a, b) == IF b = 0 THEN a ELSE Gcd(b, a % b)

\* The rational n/d (d # 0) in lowest terms with a positive denominator.
Rat(n, d) ==
    LET g == Gcd(Abs(n), Abs(d))
        sgn == IF d < 0 THEN -1 ELSE 1
    IN  [n |-> sgn * (n \div g), d |-> sgn * (d \div g)]

R(k) == [n |-> k, d |-> 1]

RAdd(p, q) == Rat(p.n * q.d + q.n * p.d, p.d * q.d)
RSub(p, q) == Rat(p.n * q.d - q.n * p.d, p.d * q.d)
RMul(p, q) == Rat(p.n * q.n, p.d * q.d)
RDiv(p, q) == Rat(p.n * q.d, p.d * q.n)
RLe(p, q) == p.n * q.d <= q.n * p.d
RLt(p, q) == p.n * q.d < q.n * p.d
\* Math.max and Math.min on two numbers.
RMax(p, q) == IF RLe(p, q) THEN q ELSE p
RMin(p, q) == IF RLe(p, q) THEN p ELSE q

(***************************************************************************)
(* Values.                                                                 *)
(***************************************************************************)
null == "null"
NoRect == [null |-> TRUE]

SQUARE == "1:1"
STORY == "9:16"
AspectRatios == {SQUARE, STORY}

\* { ...obj, ...updates }: the fields of updates override those of obj.
Merge(obj, updates) ==
    [f \in (DOMAIN obj) \cup (DOMAIN updates) |->
        IF f \in DOMAIN updates THEN updates[f] ELSE obj[f]]

\* The initial CanvasState of App.
InitialState ==
    [backgroundImage |-> null,
     backgroundTransform |-> [x |-> R(0), y |-> R(0), scale |-> R(1)],
     aspectRatio |-> SQUARE,
     layers |-> <<>>,
     selectedLayerId |-> null,
     isMaskMode |-> FALSE,
     maskRect |-> NoRect]

\* The default text of a new layer (the four-character literal of App.tsx:74,
\* "default text" in Chinese, which is not in the character set of this notation).
DefaultText == "DefaultText"

\* The layer addLayer builds; id is the value nanoid() returned.
NewLayer(id) ==
    [id |-> id,
     text |-> DefaultText,
     x |-> R(50),
     y |-> R(50),
     fontSize |-> R(48),
     color |-> "#ffffff",
     fontWeight |-> "bold",
     fontFamily |-> "Inter",
     textAlign |-> "left",
     orientation |-> "horizontal"]

DefaultMask == [x |-> R(0), y |-> R(0), width |-> R(200), height |-> R(100)]

LayerIdsOf(layers) == {layers[i].id : i \in DOMAIN layers}

\* The layer with this id.
LayerById(s, id) == s.layers[CHOOSE i \in DOMAIN s.layers : s.layers[i].id = id]

(***************************************************************************)
(* The store operations of App: each is the function handed to setState,   *)
(* applied to the previous state s.                                        *)
(***************************************************************************)
handleAspectRatioChange(s, ratio) == [s EXCEPT !.aspectRatio = ratio]

updateBackgroundTransform(s, updates) ==
    [s EXCEPT !.backgroundTransform = Merge(s.backgroundTransform, updates)]

updateBackgroundImage(s, newImage) == [s EXCEPT !.backgroundImage = newImage]

addLayer(s, newId) ==
    [s EXCEPT !.layers = Append(s.layers, NewLayer(newId)),
              !.selectedLayerId = newId,
              !.isMaskMode = FALSE]

\* Mutant of updateLayer: the spread written the other way round, { ...updates, ...l }.
updateLayer_layerWins(s, id, updates) ==
    [s EXCEPT !.layers =
        [i \in DOMAIN s.layers |->
            IF s.layers[i].id = id THEN Merge(updates, s.layers[i])
                                   ELSE s.layers[i]]]

updateLayer(s, id, updates) ==
    [s EXCEPT !.layers =
        [i \in DOMAIN s.layers |->
            IF s.layers[i].id = id THEN Merge(s.layers[i], updates)
                                   ELSE s.layers[i]]]

KeepsOtherIds(l, id) == l.id # id

\* Mutant of deleteLayer: the selection is cleared only when the deleted layer held it.
deleteLayer_keepsOtherSelection(s, id) ==
    [s EXCEPT !.layers = SelectSeq(s.layers, LAMBDA l : KeepsOtherIds(l, id)),
              !.selectedLayerId = IF s.selectedLayerId = id THEN null
                                                            ELSE s.selectedLayerId]

\* A deleteLayer that leaves the selection on the layer it removes.
deleteLayer_keepsSelection(s, id) ==
    [s EXCEPT !.layers = SelectSeq(s.layers, LAMBDA l : KeepsOtherIds(l, id))]

deleteLayer(s, id) ==
    [s EXCEPT !.layers = SelectSeq(s.layers, LAMBDA l : KeepsOtherIds(l, id)),
              !.selectedLayerId = null]

selectLayer(s, id) == [s EXCEPT !.selectedLayerId = id]

\* Mutant of toggleMaskMode: activation always installs the default mask.
toggleMaskMode_alwaysDefault(s, active) ==
    [s EXCEPT !.isMaskMode = active,
              !.maskRect = IF active THEN DefaultMask ELSE NoRect,
              !.selectedLayerId = null]

toggleMaskMode(s, active) ==
    LET initialMask == IF active /\ s.maskRect = NoRect THEN DefaultMask
                                                        ELSE s.maskRect
    IN  [s EXCEPT !.isMaskMode = active,
                  !.maskRect = IF active THEN initialMask ELSE NoRect,
                  !.selectedLayerId = null]

\* Mutant of updateMaskRect: the partial replaces the rectangle instead of merging.
updateMaskRect_replaces(s, updates) ==
    [s EXCEPT !.maskRect = IF s.maskRect # NoRect THEN updates ELSE NoRect]

updateMaskRect(s, updates) ==
    [s EXCEPT !.maskRect = IF s.maskRect # NoRect THEN Merge(s.maskRect, updates)
                                                  ELSE NoRect]

(***************************************************************************)
(* State.                                                                  *)
(***************************************************************************)
VARIABLES
    state,                \* App: the CanvasState held by useState
    viewTransform,        \* CanvasArea: workspace pan and zoom
    isDraggingLayer,      \* CanvasArea: layer drag gesture flag
    resizeState,          \* CanvasArea: layer corner-resize gesture
    isDraggingBg,         \* CanvasArea: background drag gesture flag
    bgDragStart,          \* CanvasArea: pointer offset at background drag start
    maskInteraction,      \* CanvasArea: mask drag/resize gesture
    isPanningView,        \* CanvasArea: workspace pan gesture flag
    viewPanStart,         \* CanvasArea: pointer offset at pan start
    isRemovingWatermark,  \* Controls: an inpainting request is being handled
    uploads,              \* image loads in flight, each with the aspect ratio its handler read
    removal,              \* the executeMaskedRemoval call in flight, or NoRequest
    idCount,              \* how many ids nanoid() has produced
    events,               \* how many input events carrying a value were handled
    lastOp,               \* history: the operation that produced this state, with its arguments
    pre,                  \* history: the CanvasState a store call was applied to (StoreSpec only)
    calls,                \* history: the updateLayer calls made so far (UpdateSpec only)
    pressed,              \* history: the last mouse-down with the transforms it found (GestureSpec only)
    listener,             \* CanvasArea: the render whose values the registered mousemove listener reads (ListenerSpec only)
    exportJob,            \* the exportImage call in flight, or NoRequest
    downloads,            \* the download artifacts produced so far, oldest first
    storyOffsetWidth,     \* the offsetWidth the layout gives the 337.5px wide canvas element
    aiPrompt,             \* Controls: the text of the prompt input
    isGeneratingCopy,     \* Controls: a copy request is being handled
    copyJobs              \* the handleAiGenerate calls in flight, each with the layer id it read

gestureVars ==
    <<isDraggingLayer, resizeState, isDraggingBg, bgDragStart, maskInteraction,
      isPanningView, viewPanStart>>

asyncVars == <<uploads, removal, isRemovingWatermark>>

exportVars == <<exportJob, downloads, storyOffsetWidth>>

copyVars == <<aiPrompt, isGeneratingCopy, copyJobs>>

vars ==
    <<state, viewTransform, gestureVars, asyncVars, idCount, events, lastOp, pre, calls, pressed, listener,
      exportVars, copyVars>>

NoRequest == [null |-> TRUE]

\* The initial values of the useState hooks of CanvasArea.
InitialResizeState ==
    [isResizing |-> FALSE, startY |-> R(0), startFontSize |-> R(0),
     layerId |-> null, handle |-> null]

InitialMaskInteraction ==
    [type |-> null, startX |-> R(0), startY |-> R(0), initialRect |-> NoRect]

InitialViewTransform == [x |-> R(0), y |-> R(0), scale |-> Rat(9, 10)]

\* Bounds of the store-level specification.
MaxLayers == 2

LayerIds == {"L1", "L2", "L3"}
Images == {"imgA", "imgB"}

InitUi ==
    /\ viewTransform = InitialViewTransform
    /\ isDraggingLayer = FALSE
    /\ resizeState = InitialResizeState
    /\ isDraggingBg = FALSE
    /\ bgDragStart = [x |-> R(0), y |-> R(0)]
    /\ maskInteraction = InitialMaskInteraction
    /\ isPanningView = FALSE
    /\ viewPanStart = [x |-> R(0), y |-> R(0)]
    /\ isRemovingWatermark = FALSE
    /\ uploads = {}
    /\ removal = NoRequest
    /\ pressed = NoRequest
    /\ listener = NoRequest
    /\ idCount = 0
    /\ events = 0

\* No export was started; the canvas element is laid out on a whole pixel, where
\* the 337.5px of the story format measure 338.
InitExport ==
    /\ exportJob = NoRequest
    /\ downloads = <<>>
    /\ storyOffsetWidth = 338

\* The prompt is empty and no copy request was made.
InitCopy ==
    /\ aiPrompt = ""
    /\ isGeneratingCopy = FALSE
    /\ copyJobs = {}

Init ==
    /\ state = InitialState
    /\ InitUi
    /\ InitExport
    /\ InitCopy
    /\ lastOp = [name |-> "init"]
    /\ pre = InitialState
    /\ calls = <<>>

(***************************************************************************)
(* StoreSpec: the store operations called directly, in any order, with     *)
(* arguments from bounded sets (the store as a public interface).          *)
(***************************************************************************)
LayerPartials == {[text |-> "A"], [x |-> R(10), y |-> R(20)]}

MaskPartials == {[x |-> R(5), y |-> R(7)], [width |-> R(40)]}

\* setState(prev => ...) with the history of the call.
SetState(op, s) ==
    /\ state' = s
    /\ lastOp' = op
    /\ pre' = state
    /\ UNCHANGED <<calls, pressed, listener, exportVars, copyVars>>

Call(op, s) ==
    /\ SetState(op, s)
    /\ UNCHANGED <<viewTransform, gestureVars, asyncVars, idCount, events>>

StoreAddLayer ==
    /\ Len(state.layers) < MaxLayers
    /\ \E id \in LayerIds \ LayerIdsOf(state.layers) :
          Call([name |-> "addLayer", id |-> id], addLayer(state, id))

StoreUpdateLayer ==
    \E id \in LayerIds, u \in LayerPartials :
        Call([name |-> "updateLayer", id |-> id, updates |-> u],
             updateLayer(state, id, u))

StoreDeleteLayer ==
    \E id \in LayerIds :
        Call([name |-> "deleteLayer", id |-> id], deleteLayer(state, id))

StoreSelectLayer ==
    \E id \in LayerIds \cup {null} :
        Call([name |-> "selectLayer", id |-> id], selectLayer(state, id))

StoreToggleMaskMode ==
    \E active \in BOOLEAN :
        Call([name |-> "toggleMaskMode", active |-> active],
             toggleMaskMode(state, active))

StoreUpdateMaskRect ==
    \E u \in MaskPartials :
        Call([name |-> "updateMaskRect", updates |-> u], updateMaskRect(state, u))

StoreUpdateBackgroundImage ==
    \E img \in {"imgA"} :
        Call([name |-> "updateBackgroundImage", image |-> img],
             updateBackgroundImage(state, img))

StoreNext ==
    \/ StoreAddLayer
    \/ StoreUpdateLayer
    \/ StoreDeleteLayer
    \/ StoreSelectLayer
    \/ StoreToggleMaskMode
    \/ StoreUpdateMaskRect
    \/ StoreUpdateBackgroundImage

StoreSpec == Init /\ [][StoreNext]_vars

(***************************************************************************)
(* Spec: the application as wired in the UI.  Every handler reads the      *)
(* state of the latest render; the values a handler captures before an     *)
(* await or a callback (the aspect ratio of an upload, the image and mask  *)
(* of a removal) are kept in the request in flight.                        *)
(***************************************************************************)
\* Bounds of the UI specification.
MaxIds == 2
MaxUploads == 1
MaxEvents == 2

\* Inputs.
Files == {"imgA", "imgB"}
ResultImages == {"imgR", "imgS"}
DownPoints == {[x |-> 0, y |-> 0]}
MovePoints == {[x |-> 90, y |-> 45], [x |-> -270, y |-> -180]}
Movements == {[x |-> 9, y |-> -18]}
Handles == {"tl", "br"}
WheelDeltas == {-100}
SliderValues == {R(2)}
ControlPartials == {[orientation |-> "vertical"]}

\* The natural size of the image a data URI decodes to.
NaturalWidth(img) ==
    CASE img = "imgA" -> 1200
      [] img = "imgB" -> 300
      [] img = "imgR" -> 1024
      [] img = "imgS" -> 1200

NaturalHeight(img) ==
    CASE img = "imgA" -> 600
      [] img = "imgB" -> 1200
      [] img = "imgR" -> 1024
      [] img = "imgS" -> 600

\* An id generator that returns the same value at every call.
NanoId_repeats(n) == "L1"

\* The id the n-th call of nanoid() returns: a value not returned before.
NanoId(n) == "L" \o ToString(n)

\* state.layers.find(l => l.id === state.selectedLayerId) finds a layer.
SelectedLayerExists == state.selectedLayerId \in LayerIdsOf(state.layers)

\* The layer that find returns.
SelectedLayer ==
    state.layers[CHOOSE i \in DOMAIN state.layers :
                    /\ state.layers[i].id = state.selectedLayerId
                    /\ \A j \in 1..(i - 1) : state.layers[j].id # state.selectedLayerId]

\* An event handler whose setState calls leave App with the state s.
Render(op, s) ==
    /\ state' = s
    /\ lastOp' = op
    /\ UNCHANGED <<pre, calls, pressed, listener, exportVars, copyVars>>

\* An event handler that calls no setState of App.
Note(op) ==
    /\ lastOp' = op
    /\ UNCHANGED <<state, pre, calls, pressed, listener, exportVars, copyVars>>

\* One more input event that carries a value (a file, a ratio, a pointer
\* position, a zoom step, a slider value, a removal request), within the bound.
CountEvent ==
    /\ events < MaxEvents
    /\ events' = events + 1

(* ------------------------------ App ---------------------------------- *)

\* The width of the reference viewport for an aspect ratio: 600 or (600 * 9) / 16.
UiWidth(ratio) == IF ratio = SQUARE THEN R(600) ELSE RDiv(RMul(R(600), R(9)), R(16))

\* A variant that fits the image inside the viewport.
CoverScale_contain(ratio, img) ==
    LET uiHeight == R(600)
        uiWidth == UiWidth(ratio)
        scaleX == RDiv(uiWidth, R(NaturalWidth(img)))
        scaleY == RDiv(uiHeight, R(NaturalHeight(img)))
    IN  RMin(scaleX, scaleY)

\* Math.max(scaleX, scaleY) of img.onload.
CoverScale(ratio, img) ==
    LET uiHeight == R(600)
        uiWidth == UiWidth(ratio)
        scaleX == RDiv(uiWidth, R(NaturalWidth(img)))
        scaleY == RDiv(uiHeight, R(NaturalHeight(img)))
    IN  RMax(scaleX, scaleY)

\* img.onload of handleImageUpload; ratio is state.aspectRatio as the handler's
\* closure holds it.
imgOnload(s, ratio, imgSrc) ==
    [s EXCEPT !.backgroundImage = imgSrc,
              !.backgroundTransform =
                  [x |-> R(0), y |-> R(0), scale |-> CoverScale(ratio, imgSrc)],
              !.isMaskMode = FALSE,
              !.maskRect = NoRect]

AspectRatioClick ==
    /\ \E r \in AspectRatios :
          Render([name |-> "handleAspectRatioChange", ratio |-> r],
                   handleAspectRatioChange(state, r))
    /\ CountEvent
    /\ UNCHANGED <<viewTransform, gestureVars, asyncVars, idCount>>

\* handleImageUpload: a file is chosen and its read starts.
FileSelected ==
    /\ Cardinality(uploads) < MaxUploads
    /\ \E f \in Files :
          /\ uploads' = uploads \cup {[img |-> f, ratio |-> state.aspectRatio]}
          /\ Note([name |-> "handleImageUpload", image |-> f])
    /\ CountEvent
    /\ UNCHANGED <<viewTransform, gestureVars, removal, isRemovingWatermark,
                   idCount>>

\* reader.onload and then img.onload fire.
ImgOnload ==
    /\ \E u \in uploads :
          /\ uploads' = uploads \ {u}
          /\ Render([name |-> "imgOnload", image |-> u.img, ratio |-> u.ratio],
                      imgOnload(state, u.ratio, u.img))
    /\ UNCHANGED <<viewTransform, gestureVars, removal, isRemovingWatermark,
                   idCount, events>>

\* A variant with an error handler that drops the background image.
UploadFails_dropsBackground ==
    /\ \E u \in uploads :
          /\ uploads' = uploads \ {u}
          /\ Render([name |-> "uploadFailed", image |-> u.img],
                    [state EXCEPT !.backgroundImage = null])
    /\ UNCHANGED <<viewTransform, gestureVars, removal, isRemovingWatermark,
                   idCount, events>>

\* The file cannot be read or decoded: neither onerror is handled, nothing runs.
UploadFails ==
    /\ \E u \in uploads :
          /\ uploads' = uploads \ {u}
          /\ Note([name |-> "uploadFailed", image |-> u.img])
    /\ UNCHANGED <<viewTransform, gestureVars, removal, isRemovingWatermark,
                   idCount, events>>

(* ---------------------------- Controls -------------------------------- *)

\* The tools panel is rendered (not the mask panel).
ToolsPanel == ~state.isMaskMode

\* The layer panel is rendered.
LayerPanel == ToolsPanel /\ SelectedLayerExists

\* The background panel with its controls is rendered.
BackgroundPanel ==
    ToolsPanel /\ ~SelectedLayerExists /\ state.backgroundImage # null

AddLayerClick ==
    /\ ToolsPanel
    /\ idCount < MaxIds
    /\ idCount' = idCount + 1
    /\ Render([name |-> "addLayer", id |-> NanoId(idCount + 1)],
                addLayer(state, NanoId(idCount + 1)))
    /\ UNCHANGED <<viewTransform, gestureVars, asyncVars, events>>

\* The text area, the orientation buttons and the other inputs of the layer panel.
LayerControlChange ==
    /\ LayerPanel
    /\ \E u \in ControlPartials :
          Render([name |-> "updateLayer", id |-> SelectedLayer.id, updates |-> u],
                   updateLayer(state, SelectedLayer.id, u))
    /\ UNCHANGED <<viewTransform, gestureVars, asyncVars, idCount, events>>

DeleteLayerClick ==
    /\ LayerPanel
    /\ Render([name |-> "deleteLayer", id |-> SelectedLayer.id],
                deleteLayer(state, SelectedLayer.id))
    /\ UNCHANGED <<viewTransform, gestureVars, asyncVars, idCount, events>>

EnterMaskModeClick ==
    /\ BackgroundPanel
    /\ Render([name |-> "toggleMaskMode", active |-> TRUE],
                toggleMaskMode(state, TRUE))
    /\ UNCHANGED <<viewTransform, gestureVars, asyncVars, idCount, events>>

BackgroundScaleSlider ==
    /\ BackgroundPanel
    /\ CountEvent
    /\ \E v \in SliderValues :
          Render([name |-> "updateBackgroundTransform", updates |-> [scale |-> v]],
                   updateBackgroundTransform(state, [scale |-> v]))
    /\ UNCHANGED <<viewTransform, gestureVars, asyncVars, idCount>>

CancelMaskClick ==
    /\ state.isMaskMode
    /\ ~isRemovingWatermark
    /\ Render([name |-> "toggleMaskMode", active |-> FALSE],
                toggleMaskMode(state, FALSE))
    /\ UNCHANGED <<viewTransform, gestureVars, asyncVars, idCount, events>>

\* The mask overlay as laid out inside the image container, whose box is the
\* image at its natural size: left and top are calc(50% + x - size/2), in the
\* container's own pixels (those of the image).
MaskOverlayRect(img, maskRect) ==
    [left |-> RSub(RAdd(Rat(NaturalWidth(img), 2), maskRect.x),
                   RDiv(maskRect.width, R(2))),
     top |-> RSub(RAdd(Rat(NaturalHeight(img), 2), maskRect.y),
                  RDiv(maskRect.height, R(2))),
     width |-> maskRect.width,
     height |-> maskRect.height]

\* A variant that takes the mask position for the rectangle's corner.
BurnedRect_cornerAnchored(img, maskRect) ==
    [x |-> RAdd(Rat(NaturalWidth(img), 2), maskRect.x),
     y |-> RAdd(Rat(NaturalHeight(img), 2), maskRect.y),
     width |-> maskRect.width,
     height |-> maskRect.height]

\* The arguments of ctx.fillRect in executeMaskedRemoval, on a canvas of the
\* size of the decoded image.
BurnedRect(img, maskRect) ==
    [x |-> RSub(RAdd(Rat(NaturalWidth(img), 2), maskRect.x),
                RDiv(maskRect.width, R(2))),
     y |-> RSub(RAdd(Rat(NaturalHeight(img), 2), maskRect.y),
                RDiv(maskRect.height, R(2))),
     width |-> maskRect.width,
     height |-> maskRect.height]

\* handleConfirmRemoval up to the await: executeMaskedRemoval reads the image and
\* the mask of the render and starts decoding the image; with either missing it
\* returns null at once, the alert is shown and the flag is lowered again.
ConfirmRemovalClick ==
    /\ state.isMaskMode
    /\ ~isRemovingWatermark
    /\ IF state.backgroundImage = null \/ state.maskRect = NoRect
       THEN /\ Note([name |-> "handleConfirmRemoval", result |-> null, alert |-> TRUE])
            /\ UNCHANGED <<removal, isRemovingWatermark>>
       ELSE /\ Note([name |-> "executeMaskedRemoval"])
            /\ isRemovingWatermark' = TRUE
            /\ removal' = [image |-> state.backgroundImage,
                           maskRect |-> state.maskRect,
                           shown |-> MaskOverlayRect(state.backgroundImage,
                                                     state.maskRect),
                           phase |-> "decoding"]
    /\ CountEvent
    /\ UNCHANGED <<viewTransform, gestureVars, uploads, idCount>>

\* executeMaskedRemoval: the background does not decode and error fires, which
\* has no handler: the promise the call awaits is never resolved.  Only an image
\* a request returned can fail here, an uploaded one was decoded at its upload.
RemovalImageBroken ==
    /\ removal # NoRequest
    /\ removal.phase = "decoding"
    /\ removal.image \in ResultImages
    /\ removal' = [removal EXCEPT !.phase = "abandoned"]
    /\ Note([name |-> "executeMaskedRemovalStuck"])
    /\ UNCHANGED <<viewTransform, gestureVars, uploads, isRemovingWatermark,
                   idCount, events>>

\* executeMaskedRemoval: img.onload fires, the mask is burned in and the request
\* is sent.
RemovalImageDecoded ==
    /\ removal # NoRequest
    /\ removal.phase = "decoding"
    /\ removal' = [removal EXCEPT !.phase = "requesting"]
    /\ Note([name |-> "removeImageWatermark",
             burned |-> BurnedRect(removal.image, removal.maskRect)])
    /\ UNCHANGED <<viewTransform, gestureVars, uploads, isRemovingWatermark,
                   idCount, events>>

\* A variant that leaves mask mode whatever the result is.
handleConfirmRemovalResult_alwaysExits(s, newImage) ==
    IF newImage # null
    THEN toggleMaskMode(updateBackgroundImage(s, newImage), FALSE)
    ELSE toggleMaskMode(s, FALSE)

\* handleConfirmRemoval after the await, applied to the state s.
handleConfirmRemovalResult(s, newImage) ==
    IF newImage # null
    THEN toggleMaskMode(updateBackgroundImage(s, newImage), FALSE)
    ELSE s

\* What the image request can come to: no client (no API key), a thrown error
\* (network, service), a response without candidates, or a response whose first
\* candidate has these parts.
RemovalOutcomes ==
    {[kind |-> "noClient"], [kind |-> "throws"], [kind |-> "noCandidates"],
     [kind |-> "response", parts |-> <<>>],
     [kind |-> "response", parts |-> <<[text |-> "done"]>>]}
    \cup {[kind |-> "response", parts |-> <<[text |-> "done"], [inlineData |-> img]>>] :
             img \in ResultImages}

\* removeImageWatermark: the data URI of the first part that carries image data,
\* or null.
removeImageWatermark(outcome) ==
    IF outcome.kind # "response"
    THEN null
    ELSE LET images == SelectSeq(outcome.parts, LAMBDA part : "inlineData" \in DOMAIN part)
         IN  IF images = <<>> THEN null ELSE images[1].inlineData

\* removeImageWatermark resolves, to an image or to null, and handleConfirmRemoval
\* goes on: the image is applied, or the failure alert is shown.
RemovalResolves ==
    /\ removal # NoRequest
    /\ removal.phase = "requesting"
    /\ \E outcome \in RemovalOutcomes :
          LET result == removeImageWatermark(outcome)
          IN  Render([name |-> "handleConfirmRemoval", outcome |-> outcome.kind,
                      result |-> result, alert |-> (result = null)],
                     handleConfirmRemovalResult(state, result))
    /\ isRemovingWatermark' = FALSE
    /\ removal' = NoRequest
    /\ UNCHANGED <<viewTransform, gestureVars, uploads, idCount, events>>

(* --------------------------- CanvasArea ------------------------------- *)

\* No gesture is in progress.  There is one pointer with one button in use: a
\* press follows the release of the previous press.
PointerUp ==
    /\ ~isDraggingLayer
    /\ ~resizeState.isResizing
    /\ ~isDraggingBg
    /\ maskInteraction.type = null
    /\ ~isPanningView

\* A variant in which layers stay rendered and pressable in mask mode.
LayerMouseDown_inMaskMode ==
    /\ PointerUp
    /\ \E i \in DOMAIN state.layers :
          Render([name |-> "handleLayerMouseDown", id |-> state.layers[i].id],
                 selectLayer(state, state.layers[i].id))
    /\ isDraggingLayer' = TRUE
    /\ UNCHANGED <<viewTransform, resizeState, isDraggingBg, bgDragStart,
                   maskInteraction, isPanningView, viewPanStart, asyncVars,
                   idCount, events>>

\* A press on a text layer; layers are rendered outside mask mode only, and the
\* handler returns at once in mask mode.
LayerMouseDown ==
    /\ PointerUp
    /\ ~state.isMaskMode
    /\ \E i \in DOMAIN state.layers :
          Render([name |-> "handleLayerMouseDown", id |-> state.layers[i].id],
                   selectLayer(state, state.layers[i].id))
    /\ isDraggingLayer' = TRUE
    /\ UNCHANGED <<viewTransform, resizeState, isDraggingBg, bgDragStart,
                   maskInteraction, isPanningView, viewPanStart, asyncVars,
                   idCount, events>>

\* A press on a corner handle; handles are rendered on the selected layer.
ResizeMouseDown ==
    /\ PointerUp
    /\ ~state.isMaskMode
    /\ SelectedLayerExists
    /\ \E handle \in Handles, p \in DownPoints :
          /\ resizeState' = [isResizing |-> TRUE,
                             startY |-> R(p.y),
                             startFontSize |-> SelectedLayer.fontSize,
                             layerId |-> SelectedLayer.id,
                             handle |-> handle]
          /\ Note([name |-> "handleResizeMouseDown", handle |-> handle, y |-> p.y])
    /\ UNCHANGED <<viewTransform, isDraggingLayer, isDraggingBg, bgDragStart,
                   maskInteraction, isPanningView, viewPanStart, asyncVars,
                   idCount, events>>

\* The mask overlay is rendered.
MaskOverlay ==
    state.backgroundImage # null /\ state.isMaskMode /\ state.maskRect # NoRect

MaskMouseDown ==
    /\ PointerUp
    /\ MaskOverlay
    /\ \E p \in DownPoints :
          maskInteraction' = [type |-> "drag", startX |-> R(p.x), startY |-> R(p.y),
                              initialRect |-> state.maskRect]
    /\ Note([name |-> "handleMaskMouseDown"])
    /\ UNCHANGED <<viewTransform, isDraggingLayer, resizeState, isDraggingBg,
                   bgDragStart, isPanningView, viewPanStart, asyncVars, idCount, events>>

MaskResizeMouseDown ==
    /\ PointerUp
    /\ MaskOverlay
    /\ \E p \in DownPoints :
          maskInteraction' = [type |-> "resize", startX |-> R(p.x), startY |-> R(p.y),
                              initialRect |-> state.maskRect]
    /\ Note([name |-> "handleMaskResizeMouseDown"])
    /\ UNCHANGED <<viewTransform, isDraggingLayer, resizeState, isDraggingBg,
                   bgDragStart, isPanningView, viewPanStart, asyncVars, idCount, events>>

\* handleWorkspaceMouseDown for the left button, on the state s.
WorkspaceDown(s, p) ==
    /\ state' = IF ~s.isMaskMode THEN selectLayer(s, null) ELSE s
    /\ isPanningView' = TRUE
    /\ viewPanStart' = [x |-> RSub(R(p.x), viewTransform.x),
                        y |-> RSub(R(p.y), viewTransform.y)]

\* A left press on the workspace around the canvas.
WorkspaceMouseDown ==
    /\ PointerUp
    /\ \E p \in DownPoints : WorkspaceDown(state, p)
    /\ lastOp' = [name |-> "handleWorkspaceMouseDown"]
    /\ UNCHANGED <<viewTransform, isDraggingLayer, resizeState, isDraggingBg,
                   bgDragStart, maskInteraction, asyncVars, idCount, events,
                   pre, calls, pressed, listener, exportVars, copyVars>>

\* A left press on the image in mask mode: the mask is re-centred on the click.
\* c is the click position relative to the centre of the rendered image; the
\* rendered width is the natural width under both scales.
CanvasMouseDownRelocate ==
    /\ PointerUp
    /\ MaskOverlay
    /\ \E c \in MovePoints :
          LET scaleFactor == RMul(state.backgroundTransform.scale, viewTransform.scale)
              newX == RDiv(R(c.x), scaleFactor)
              newY == RDiv(R(c.y), scaleFactor)
          IN  Render([name |-> "handleCanvasMouseDown", target |-> "IMG"],
                       updateMaskRect(state, [x |-> newX, y |-> newY]))
    /\ CountEvent
    /\ UNCHANGED <<viewTransform, gestureVars, asyncVars, idCount>>

\* A left press on the canvas off the image in mask mode: the handler returns
\* without stopping the event, which reaches handleWorkspaceMouseDown.
CanvasMouseDownMaskMode ==
    /\ PointerUp
    /\ state.isMaskMode
    /\ \E p \in DownPoints : WorkspaceDown(state, p)
    /\ lastOp' = [name |-> "handleCanvasMouseDown", target |-> "DIV"]
    /\ UNCHANGED <<viewTransform, isDraggingLayer, resizeState, isDraggingBg,
                   bgDragStart, maskInteraction, asyncVars, idCount, events,
                   pre, calls, pressed, listener, exportVars, copyVars>>

\* A left press on the canvas outside mask mode: the background drag starts.
CanvasMouseDown ==
    /\ PointerUp
    /\ ~state.isMaskMode
    /\ Render([name |-> "handleCanvasMouseDown", target |-> "canvas"],
                selectLayer(state, null))
    /\ isDraggingBg' = TRUE
    /\ \E p \in DownPoints :
          bgDragStart' =
              [x |-> RSub(R(p.x), RMul(state.backgroundTransform.x, viewTransform.scale)),
               y |-> RSub(R(p.y), RMul(state.backgroundTransform.y, viewTransform.scale))]
    /\ UNCHANGED <<viewTransform, isDraggingLayer, resizeState, maskInteraction,
                   isPanningView, viewPanStart, asyncVars, idCount, events>>

\* The branches of handleMouseMove, in the order the handler tests them.
MaskBranch ==
    /\ state.isMaskMode
    /\ maskInteraction.type # null
    /\ maskInteraction.initialRect # NoRect

ResizeBranch ==
    /\ ~MaskBranch
    /\ resizeState.isResizing
    /\ resizeState.layerId # null

LayerBranch ==
    /\ ~MaskBranch
    /\ ~ResizeBranch
    /\ isDraggingLayer
    /\ state.selectedLayerId # null

BgBranch ==
    /\ ~MaskBranch
    /\ ~ResizeBranch
    /\ ~LayerBranch
    /\ isDraggingBg
    /\ state.backgroundImage # null

PanBranch ==
    /\ ~MaskBranch
    /\ ~ResizeBranch
    /\ ~LayerBranch
    /\ ~BgBranch
    /\ isPanningView

\* The partial a mask-drag move hands to updateMaskRect.
\* A mask drag that follows the pointer horizontally only.
MaskDragUpdate_horizontalOnly(initialRect, deltaImageX, deltaImageY) ==
    [x |-> RAdd(initialRect.x, deltaImageX),
     y |-> initialRect.y]

MaskDragUpdate(initialRect, deltaImageX, deltaImageY) ==
    [x |-> RAdd(initialRect.x, deltaImageX),
     y |-> RAdd(initialRect.y, deltaImageY)]

\* A variant without the lower limit of the size.
MaskResizeUpdate_noClamp(initialRect, deltaImageX, deltaImageY) ==
    LET newWidth == RAdd(initialRect.width, deltaImageX)
        newHeight == RAdd(initialRect.height, deltaImageY)
        shiftX == RDiv(RSub(newWidth, initialRect.width), R(2))
        shiftY == RDiv(RSub(newHeight, initialRect.height), R(2))
    IN  [width |-> newWidth,
         height |-> newHeight,
         x |-> RAdd(initialRect.x, shiftX),
         y |-> RAdd(initialRect.y, shiftY)]

\* The partial a mask-resize move hands to updateMaskRect.
\* A mask resize that shifts the centre by half of the pointer delta, not by
\* half of the size change applied after the clamp.
MaskResizeUpdate_shiftByDelta(initialRect, deltaImageX, deltaImageY) ==
    LET newWidth == RMax(R(20), RAdd(initialRect.width, deltaImageX))
        newHeight == RMax(R(20), RAdd(initialRect.height, deltaImageY))
        shiftX == RDiv(deltaImageX, R(2))
        shiftY == RDiv(deltaImageY, R(2))
    IN  [width |-> newWidth,
         height |-> newHeight,
         x |-> RAdd(initialRect.x, shiftX),
         y |-> RAdd(initialRect.y, shiftY)]

MaskResizeUpdate(initialRect, deltaImageX, deltaImageY) ==
    LET newWidth == RMax(R(20), RAdd(initialRect.width, deltaImageX))
        newHeight == RMax(R(20), RAdd(initialRect.height, deltaImageY))
        shiftX == RDiv(RSub(newWidth, initialRect.width), R(2))
        shiftY == RDiv(RSub(newHeight, initialRect.height), R(2))
    IN  [width |-> newWidth,
         height |-> newHeight,
         x |-> RAdd(initialRect.x, shiftX),
         y |-> RAdd(initialRect.y, shiftY)]

MouseMoveMask ==
    /\ MaskBranch
    /\ CountEvent
    /\ \E p \in MovePoints :
          LET totalScale == RMul(viewTransform.scale, state.backgroundTransform.scale)
              deltaScreenX == RSub(R(p.x), maskInteraction.startX)
              deltaScreenY == RSub(R(p.y), maskInteraction.startY)
              deltaImageX == RDiv(deltaScreenX, totalScale)
              deltaImageY == RDiv(deltaScreenY, totalScale)
              updates == IF maskInteraction.type = "drag"
                         THEN MaskDragUpdate(maskInteraction.initialRect,
                                             deltaImageX, deltaImageY)
                         ELSE MaskResizeUpdate(maskInteraction.initialRect,
                                               deltaImageX, deltaImageY)
          IN  Render([name |-> "handleMouseMove", gesture |-> maskInteraction.type,
                      point |-> p],
                     updateMaskRect(state, updates))
    /\ UNCHANGED <<viewTransform, gestureVars, asyncVars, idCount>>

\* A variant without the lower limit of the font size.
LayerResizeUpdate_noMinimum(resize, clientY, scale) ==
    LET deltaY == RDiv(RSub(R(clientY), resize.startY), scale)
        direction == IF resize.handle \in {"bl", "br"} THEN R(1) ELSE R(-1)
        newSize == RAdd(resize.startFontSize, RMul(deltaY, direction))
    IN  [fontSize |-> newSize]

\* A variant that also sets the vertical position of the layer.
LayerResizeUpdate_movesLayer(resize, clientY, scale) ==
    LET deltaY == RDiv(RSub(R(clientY), resize.startY), scale)
        direction == IF resize.handle \in {"bl", "br"} THEN R(1) ELSE R(-1)
        newSize == RMax(R(12), RAdd(resize.startFontSize, RMul(deltaY, direction)))
    IN  [fontSize |-> newSize, y |-> deltaY]

\* The partial a layer-resize move hands to updateLayer.
LayerResizeUpdate(resize, clientY, scale) ==
    LET deltaY == RDiv(RSub(R(clientY), resize.startY), scale)
        direction == IF resize.handle \in {"bl", "br"} THEN R(1) ELSE R(-1)
        newSize == RMax(R(12), RAdd(resize.startFontSize, RMul(deltaY, direction)))
    IN  [fontSize |-> newSize]

MouseMoveResize ==
    /\ ResizeBranch
    /\ CountEvent
    /\ \E p \in MovePoints :
          Render([name |-> "handleMouseMove", gesture |-> "layer-resize", point |-> p],
                 updateLayer(state, resizeState.layerId,
                             LayerResizeUpdate(resizeState, p.y, viewTransform.scale)))
    /\ UNCHANGED <<viewTransform, gestureVars, asyncVars, idCount>>

\* A variant that takes the screen movement as canvas units.
LayerDragUpdate_unscaled(currentLayer, movementX, movementY, scale) ==
    [x |-> RAdd(currentLayer.x, R(movementX)),
     y |-> RAdd(currentLayer.y, R(movementY))]

\* The partial a layer-drag move hands to updateLayer.
LayerDragUpdate(currentLayer, movementX, movementY, scale) ==
    LET deltaX == RDiv(R(movementX), scale)
        deltaY == RDiv(R(movementY), scale)
    IN  [x |-> RAdd(currentLayer.x, deltaX),
         y |-> RAdd(currentLayer.y, deltaY)]

MouseMoveLayer ==
    /\ LayerBranch
    /\ SelectedLayerExists
    /\ CountEvent
    /\ \E m \in Movements :
          Render([name |-> "handleMouseMove", gesture |-> "layer-drag", movement |-> m],
                 updateLayer(state, state.selectedLayerId,
                             LayerDragUpdate(SelectedLayer, m.x, m.y,
                                             viewTransform.scale)))
    /\ UNCHANGED <<viewTransform, gestureVars, asyncVars, idCount>>

\* The translation a background drag computes from the pointer without the
\* offset taken at the press: the image jumps to the pointer.
BgDragUpdate_ignoresOffset(dragStart, p, scale) ==
    [x |-> RDiv(R(p.x), scale),
     y |-> RDiv(R(p.y), scale)]

\* The translation a background drag computes: the pointer minus the offset
\* taken at the press, in canvas units.
BgDragUpdate(dragStart, p, scale) ==
    LET newX == RDiv(RSub(R(p.x), dragStart.x), scale)
        newY == RDiv(RSub(R(p.y), dragStart.y), scale)
    IN  [x |-> newX, y |-> newY]

MouseMoveBg ==
    /\ BgBranch
    /\ CountEvent
    /\ \E p \in MovePoints :
          Render([name |-> "handleMouseMove", gesture |-> "background-drag",
                  point |-> p],
                 updateBackgroundTransform(state,
                     BgDragUpdate(bgDragStart, p, viewTransform.scale)))
    /\ UNCHANGED <<viewTransform, gestureVars, asyncVars, idCount>>

MouseMovePan ==
    /\ PanBranch
    /\ CountEvent
    /\ \E p \in MovePoints :
          /\ viewTransform' = [viewTransform EXCEPT !.x = RSub(R(p.x), viewPanStart.x),
                                                    !.y = RSub(R(p.y), viewPanStart.y)]
          /\ Note([name |-> "handleMouseMove", gesture |-> "pan"])
    /\ UNCHANGED <<gestureVars, asyncVars, idCount>>

\* A variant that leaves the mask interaction as it is.
MouseUp_keepsMaskInteraction ==
    /\ isDraggingLayer' = FALSE
    /\ isDraggingBg' = FALSE
    /\ isPanningView' = FALSE
    /\ resizeState' = [resizeState EXCEPT !.isResizing = FALSE]
    /\ Note([name |-> "handleMouseUp"])
    /\ UNCHANGED <<viewTransform, bgDragStart, viewPanStart, maskInteraction,
                   asyncVars, idCount, events>>

\* handleMouseUp.
MouseUp ==
    /\ isDraggingLayer' = FALSE
    /\ isDraggingBg' = FALSE
    /\ isPanningView' = FALSE
    /\ resizeState' = [resizeState EXCEPT !.isResizing = FALSE]
    /\ maskInteraction' = InitialMaskInteraction
    /\ Note([name |-> "handleMouseUp"])
    /\ UNCHANGED <<viewTransform, bgDragStart, viewPanStart, asyncVars, idCount, events>>

\* The listeners on window after the effect of a render has run.  The effect of
\* the earlier copy of the component (lines 1-304) adds them under a condition
\* on the gesture flags.
WindowListeners_firstVariant ==
    IF isDraggingLayer \/ isPanningView \/ isDraggingBg \/ resizeState.isResizing
    THEN {"mousemove", "mouseup"}
    ELSE {}

\* The effect of the mask-aware component adds handleMouseMove and handleMouseUp
\* on every run, after the cleanup of the previous run has removed the previous
\* pair.
WindowListeners == {"mousemove", "mouseup"}

\* A variant of the zoom computation without the clamp.
WheelScale_unclamped(scale, deltaY) ==
    LET zoomSensitivity == Rat(1, 1000)
        delta == RMul(R(-deltaY), zoomSensitivity)
    IN  RAdd(scale, delta)

\* newScale of handleWheel.
WheelScale(scale, deltaY) ==
    LET zoomSensitivity == Rat(1, 1000)
        delta == RMul(R(-deltaY), zoomSensitivity)
    IN  RMin(RMax(RAdd(scale, delta), Rat(1, 10)), R(5))

\* handleWheel for a wheel event of this deltaY; modifier is e.ctrlKey || e.metaKey.
handleWheel(deltaY, modifier) ==
    /\ CountEvent
    /\ viewTransform' =
          IF modifier
          THEN [viewTransform EXCEPT !.scale = WheelScale(viewTransform.scale, deltaY)]
          ELSE viewTransform
    /\ Note([name |-> "handleWheel", deltaY |-> deltaY, modifier |-> modifier])
    /\ UNCHANGED <<gestureVars, asyncVars, idCount>>

\* A zoom gesture: a wheel event with the modifier key held.
Wheel == \E deltaY \in WheelDeltas : handleWheel(deltaY, TRUE)

ZoomOutClick ==
    /\ CountEvent
    /\ viewTransform' =
          [viewTransform EXCEPT !.scale = RMax(Rat(1, 10), RSub(@, Rat(1, 10)))]
    /\ Note([name |-> "zoomOut"])
    /\ UNCHANGED <<gestureVars, asyncVars, idCount>>

ZoomInClick ==
    /\ CountEvent
    /\ viewTransform' =
          [viewTransform EXCEPT !.scale = RMin(R(5), RAdd(@, Rat(1, 10)))]
    /\ Note([name |-> "zoomIn"])
    /\ UNCHANGED <<gestureVars, asyncVars, idCount>>

ResetViewClick ==
    /\ viewTransform' = [x |-> R(0), y |-> R(0), scale |-> Rat(9, 10)]
    /\ Note([name |-> "resetView"])
    /\ UNCHANGED <<gestureVars, asyncVars, idCount, events>>

Next ==
    \/ AspectRatioClick
    \/ FileSelected
    \/ ImgOnload
    \/ UploadFails
    \/ AddLayerClick
    \/ LayerControlChange
    \/ DeleteLayerClick
    \/ EnterMaskModeClick
    \/ BackgroundScaleSlider
    \/ CancelMaskClick
    \/ ConfirmRemovalClick
    \/ RemovalImageDecoded
    \/ RemovalResolves
    \/ LayerMouseDown
    \/ ResizeMouseDown
    \/ MaskMouseDown
    \/ MaskResizeMouseDown
    \/ WorkspaceMouseDown
    \/ CanvasMouseDownRelocate
    \/ CanvasMouseDownMaskMode
    \/ CanvasMouseDown
    \/ MouseMoveMask
    \/ MouseMoveResize
    \/ MouseMoveLayer
    \/ MouseMoveBg
    \/ MouseMovePan
    \/ MouseUp
    \/ Wheel
    \/ ZoomOutClick
    \/ ZoomInClick
    \/ ResetViewClick

Spec == Init /\ [][Next]_vars

(***************************************************************************)
(* exportImage of src/App.tsx: the draw operations of an export as a       *)
(* function of the CanvasState the call read, the decoded image and the    *)
(* measured width of the canvas element.                                   *)
(***************************************************************************)
\* text.split('\n'): the pieces between the newlines, at least one.
RECURSIVE SplitLines(_)
SplitLines(text) ==
    IF \E i \in 1..Len(text) : SubSeq(text, i, i) = "\n"
    THEN LET i == CHOOSE k \in 1..Len(text) :
                     /\ SubSeq(text, k, k) = "\n"
                     /\ \A m \in 1..(k - 1) : SubSeq(text, m, m) # "\n"
         IN  <<SubSeq(text, 1, i - 1)>> \o SplitLines(SubSeq(text, i + 1, Len(text)))
    ELSE <<text>>

\* line.split(''): the characters of the line.
Chars(line) == [j \in 1..Len(line) |-> SubSeq(line, j, j)]

\* The concatenation of a sequence of sequences, in order.
RECURSIVE Flatten(_)
Flatten(seqs) == IF seqs = <<>> THEN <<>> ELSE Head(seqs) \o Flatten(Tail(seqs))

ExportHeight == 1920

ExportWidth(ratio) == IF ratio = SQUARE THEN 1920 ELSE 1080

\* A variant that measures the width as displayed, under the zoom of the workspace.
OffsetWidth_displayed(ratio) ==
    ((IF ratio = SQUARE THEN 600 ELSE storyOffsetWidth) * viewTransform.scale.n)
        \div viewTransform.scale.d

\* canvasRef.current.offsetWidth: the layout width of the canvas element in whole
\* pixels, whatever transform the workspace applies to it.
OffsetWidth(ratio) == IF ratio = SQUARE THEN 600 ELSE storyOffsetWidth

\* domWidth: the measured width, or the nominal width when the measure is 0 or
\* the element is missing.
DomWidth(measured, ratio) ==
    IF measured # 0 THEN R(measured)
    ELSE IF ratio = SQUARE THEN R(600) ELSE Rat(675, 2)

\* A variant that draws the lines at the canvas position, not scaled.
HorizontalOps_unscaled(layer, k, scaleFactor) ==
    LET lineHeight == RMul(RMul(layer.fontSize, scaleFactor), Rat(6, 5))
        lines == SplitLines(layer.text)
    IN  [i \in 1..Len(lines) |->
            [layer |-> k, line |-> i - 1, text |-> lines[i],
             x |-> layer.x,
             y |-> RAdd(layer.y, RMul(R(i - 1), lineHeight)),
             fontSize |-> RMul(layer.fontSize, scaleFactor),
             fontWeight |-> layer.fontWeight,
             fontFamily |-> layer.fontFamily,
             fillStyle |-> layer.color]]

\* The fillText calls of one horizontal layer: one per line.
HorizontalOps(layer, k, scaleFactor) ==
    LET lineHeight == RMul(RMul(layer.fontSize, scaleFactor), Rat(6, 5))
        lines == SplitLines(layer.text)
    IN  [i \in 1..Len(lines) |->
            [layer |-> k, line |-> i - 1, text |-> lines[i],
             x |-> RMul(layer.x, scaleFactor),
             y |-> RAdd(RMul(layer.y, scaleFactor), RMul(R(i - 1), lineHeight)),
             fontSize |-> RMul(layer.fontSize, scaleFactor),
             fontWeight |-> layer.fontWeight,
             fontFamily |-> layer.fontFamily,
             fillStyle |-> layer.color]]

\* A variant that lays the columns out to the right.
VerticalOps_rightward(layer, k, scaleFactor) ==
    LET size == RMul(layer.fontSize, scaleFactor)
        lineHeight == RMul(size, Rat(6, 5))
        lines == SplitLines(layer.text)
        column(i) ==
            LET lineX == RAdd(RMul(layer.x, scaleFactor), RMul(R(i - 1), lineHeight))
                chars == Chars(lines[i])
            IN  [j \in 1..Len(chars) |->
                    [layer |-> k, line |-> i - 1, char |-> j - 1, text |-> chars[j],
                     x |-> RAdd(lineX, RDiv(RSub(lineHeight, size), R(2))),
                     y |-> RAdd(RMul(layer.y, scaleFactor), RMul(R(j - 1), lineHeight)),
                     fontSize |-> size,
                     fontWeight |-> layer.fontWeight,
                     fontFamily |-> layer.fontFamily,
                     fillStyle |-> layer.color]]
    IN  Flatten([i \in 1..Len(lines) |-> column(i)])

\* The fillText calls of one vertical layer: one per character, column by column.
VerticalOps(layer, k, scaleFactor) ==
    LET size == RMul(layer.fontSize, scaleFactor)
        lineHeight == RMul(size, Rat(6, 5))
        lines == SplitLines(layer.text)
        column(i) ==
            LET lineX == RSub(RMul(layer.x, scaleFactor), RMul(R(i - 1), lineHeight))
                chars == Chars(lines[i])
            IN  [j \in 1..Len(chars) |->
                    [layer |-> k, line |-> i - 1, char |-> j - 1, text |-> chars[j],
                     x |-> RAdd(lineX, RDiv(RSub(lineHeight, size), R(2))),
                     y |-> RAdd(RMul(layer.y, scaleFactor), RMul(R(j - 1), lineHeight)),
                     fontSize |-> size,
                     fontWeight |-> layer.fontWeight,
                     fontFamily |-> layer.fontFamily,
                     fillStyle |-> layer.color]]
    IN  Flatten([i \in 1..Len(lines) |-> column(i)])

\* state.layers.forEach(...): the fillText calls of all layers, in layer order.
TextOps(layers, scaleFactor) ==
    Flatten([k \in 1..Len(layers) |->
                IF layers[k].orientation = "vertical"
                THEN VerticalOps(layers[k], k, scaleFactor)
                ELSE HorizontalOps(layers[k], k, scaleFactor)])

\* The transform under which the background image is drawn, and the drawImage call.
BackgroundOp(s) ==
    LET ratio == RDiv(R(ExportHeight), R(600))
        img == s.backgroundImage
    IN  [image |-> img,
         translateX |-> RAdd(RDiv(R(ExportWidth(s.aspectRatio)), R(2)),
                             RMul(s.backgroundTransform.x, ratio)),
         translateY |-> RAdd(RDiv(R(ExportHeight), R(2)),
                             RMul(s.backgroundTransform.y, ratio)),
         scale |-> RMul(s.backgroundTransform.scale, ratio),
         dx |-> RDiv(R(-NaturalWidth(img)), R(2)),
         dy |-> RDiv(R(-NaturalHeight(img)), R(2))]

\* The raster that exportImage hands to the download link, for the state s the
\* call read and the width measured on the canvas element.
ExportRaster(s, measured) ==
    LET exportWidth == ExportWidth(s.aspectRatio)
        domWidth == DomWidth(measured, s.aspectRatio)
        scaleFactor == RDiv(R(exportWidth), domWidth)
    IN  [width |-> exportWidth,
         height |-> ExportHeight,
         background |-> BackgroundOp(s),
         texts |-> TextOps(s.layers, scaleFactor)]

(***************************************************************************)
(* ExportSpec: exportImage called on canvas states built with the store    *)
(* operations, under several view transforms, while the view and the       *)
(* aspect ratio may change between the call and the decode of the image.   *)
(* One export is in flight at a time.                                      *)
(***************************************************************************)
MaxExports == 2

\* The canvas states exports start from: each format, no image or one of the
\* uploaded images at its cover scale, and no layer, the one-line layer of the
\* export scenario, or a two-line horizontal and a two-line vertical layer.
ExportState(ratio, img, config) ==
    LET s0 == handleAspectRatioChange(InitialState, ratio)
        s1 == IF img = null THEN s0 ELSE imgOnload(s0, ratio, img)
        one == updateLayer(addLayer(s1, "L1"), "L1", [text |-> "SALE"])
        two == updateLayer(
                   updateLayer(addLayer(addLayer(s1, "L1"), "L2"), "L1",
                               [text |-> "A\nB", x |-> R(10), y |-> R(20)]),
                   "L2", [text |-> "A\nB", orientation |-> "vertical"])
    IN  CASE config = 0 -> s1
          [] config = 1 -> one
          [] config = 2 -> two

ExportStates ==
    {ExportState(r, img, c) : r \in AspectRatios, img \in Files \cup {null}, c \in 0..2}

ExportViews == {InitialViewTransform, [x |-> R(90), y |-> R(45), scale |-> R(2)]}

ExportInit ==
    /\ state \in ExportStates
    /\ InitUi
    /\ exportJob = NoRequest
    /\ downloads = <<>>
    /\ storyOffsetWidth \in {337, 338}
    /\ InitCopy
    /\ lastOp = [name |-> "init"]
    /\ pre = InitialState
    /\ calls = <<>>

\* A variant that starts the export whenever the 2d context exists.
exportImageStarts_anyState(s, ctx) == ctx

\* exportImage goes on past its first check: the 2d context exists and a
\* background image is loaded.
exportImageStarts(s, ctx) == ctx /\ s.backgroundImage # null

\* exportImage up to the await: the call reads the state of the render and
\* starts decoding the background image, or returns at once.
ExportCall ==
    /\ exportJob = NoRequest
    /\ Len(downloads) < MaxExports
    /\ \E ctx \in BOOLEAN :
          /\ exportJob' = IF exportImageStarts(state, ctx)
                          THEN [state |-> state, view |-> viewTransform]
                          ELSE NoRequest
          /\ lastOp' = [name |-> "exportImage", ctx |-> ctx]
    /\ UNCHANGED <<state, viewTransform, gestureVars, asyncVars, idCount, events,
                   pre, calls, pressed, listener, downloads, storyOffsetWidth, copyVars>>

\* img.onload resolves the await: the raster is drawn and handed to the download
\* link.  from and view record the state the call read and the view transform at
\* the call, shown and measured the format of the canvas element at the time of
\* the measure and its measured width.
ExportImageLoads ==
    /\ exportJob # NoRequest
    /\ downloads' = Append(downloads,
                           [raster |-> ExportRaster(exportJob.state,
                                                    OffsetWidth(state.aspectRatio)),
                            measured |-> OffsetWidth(state.aspectRatio),
                            shown |-> state.aspectRatio,
                            from |-> exportJob.state,
                            view |-> exportJob.view])
    /\ exportJob' = NoRequest
    /\ lastOp' = [name |-> "exportImageDone"]
    /\ UNCHANGED <<state, viewTransform, gestureVars, asyncVars, idCount, events,
                   pre, calls, pressed, listener, storyOffsetWidth, copyVars>>

\* img.onerror resolves the await: drawImage then throws on the broken image and
\* the call ends before the download link is made.
ExportImageFails ==
    /\ exportJob # NoRequest
    /\ exportJob' = NoRequest
    /\ lastOp' = [name |-> "exportImageThrew"]
    /\ UNCHANGED <<state, viewTransform, gestureVars, asyncVars, idCount, events,
                   pre, calls, pressed, listener, downloads, storyOffsetWidth, copyVars>>

\* The workspace is panned and zoomed to another view.
ViewChanges ==
    /\ \E v \in ExportViews : viewTransform' = v
    /\ Note([name |-> "panAndZoom"])
    /\ UNCHANGED <<gestureVars, asyncVars, idCount, events>>

ExportNext ==
    \/ ExportCall
    \/ ExportImageLoads
    \/ ExportImageFails
    \/ AspectRatioClick
    \/ ZoomInClick
    \/ ResetViewClick
    \/ ViewChanges

ExportSpec == ExportInit /\ [][ExportNext]_vars

\* The browser fires one of load and error for an image whose src was set, so
\* the await of a pending export is resolved in the end.
ExportLiveSpec == ExportSpec /\ WF_vars(ExportImageLoads \/ ExportImageFails)

(* -------------------- Claims on ExportLiveSpec ------------------------ *)

\* A step that ends a pending export hands a raster to the download link.
ExportEndsWithDownload ==
    (exportJob # NoRequest /\ exportJob' = NoRequest)
    => Len(downloads') = Len(downloads) + 1

\* C31: an export started with a background image is never blocked: whether the
\* decode of the image succeeds or fails, the pending export comes to an end, and
\* it ends with the step that produces the download.
C31_ExportReachesDownload ==
    /\ [][ExportEndsWithDownload]_vars
    /\ (exportJob # NoRequest) ~> (exportJob = NoRequest)

(* ---------------------- Claims on ExportSpec -------------------------- *)

\* The steps of exportImage.
ExportStep == lastOp'.name \in {"exportImage", "exportImageDone", "exportImageThrew"}

\* C12: exportImage called while backgroundImage is null is refused: the call
\* leaves the CanvasState unchanged, produces no download artifact and starts
\* nothing that produces one later (every artifact comes from a state with a
\* background image).
C12_ExportRefusedWithoutBackground ==
    /\ [] (\A i \in DOMAIN downloads : downloads[i].from.backgroundImage # null)
    /\ [][(lastOp'.name = "exportImage" /\ state.backgroundImage = null) =>
             /\ state' = state
             /\ downloads' = downloads
             /\ exportJob' = NoRequest]_vars

\* exportImage was called with a 2d context on a state of two layers and no
\* background image, and no export is in flight.
C12_Witness ==
    /\ lastOp.name = "exportImage"
    /\ lastOp.ctx
    /\ state.backgroundImage = null
    /\ Len(state.layers) = 2
    /\ exportJob = NoRequest
    /\ downloads = <<>>

\* The fillText calls of an artifact that draw layer k, in drawing order.
OpsOfLayer(d, k) == SelectSeq(d.raster.texts, LAMBDA o : o.layer = k)

\* exportWidth / canvas width, for the width measured on the canvas element.
ScaleFactorOf(d) == RDiv(R(ExportWidth(d.from.aspectRatio)), R(d.measured))

\* C13: an export is a raster of 1920x1920 for SQUARE and 1080x1920 for STORY; the
\* layers are drawn in insertion order, and every horizontal layer is drawn line by
\* line, line i at (x*scaleFactor, y*scaleFactor + i*fontSize*scaleFactor*1.2) with
\* scaleFactor = exportWidth / canvas width; for SQUARE with a canvas 600 wide a
\* layer at (50, 50) is drawn at (160, 160).
C13_ExportHorizontalLayout ==
    \A n \in DOMAIN downloads :
        LET d == downloads[n]
            s == d.from
            sf == ScaleFactorOf(d)
            texts == d.raster.texts
        IN  /\ d.raster.height = 1920
            /\ d.raster.width = (IF s.aspectRatio = SQUARE THEN 1920 ELSE 1080)
            /\ \A a, b \in DOMAIN texts : a < b => texts[a].layer <= texts[b].layer
            /\ \A k \in DOMAIN s.layers :
                  s.layers[k].orientation = "horizontal" =>
                      LET l == s.layers[k]
                          lines == SplitLines(l.text)
                          ops == OpsOfLayer(d, k)
                          step == RMul(RMul(l.fontSize, sf), Rat(6, 5))
                      IN  /\ Len(ops) = Len(lines)
                          /\ \A i \in DOMAIN ops :
                                /\ ops[i].text = lines[i]
                                /\ ops[i].x = RMul(l.x, sf)
                                /\ ops[i].y = RAdd(RMul(l.y, sf), RMul(R(i - 1), step))
                          /\ (s.aspectRatio = SQUARE /\ d.measured = 600
                              /\ l.x = R(50) /\ l.y = R(50))
                             => (ops[1].x = R(160) /\ ops[1].y = R(160))

\* The export scenario was exported: the layer "SALE" at (50, 50), font size 48,
\* on a square canvas 600 wide over a background image, drawn at (160, 160) in a
\* raster of 1920x1920.
C13_Witness ==
    /\ Len(downloads) > 0
    /\ downloads[1].from.aspectRatio = SQUARE
    /\ downloads[1].from.backgroundImage = "imgA"
    /\ downloads[1].measured = 600
    /\ downloads[1].raster.width = 1920
    /\ downloads[1].raster.height = 1920
    /\ Len(downloads[1].raster.texts) = 1
    /\ downloads[1].raster.texts[1].text = "SALE"
    /\ downloads[1].raster.texts[1].x = R(160)
    /\ downloads[1].raster.texts[1].y = R(160)

\* C14: for a vertical layer the export splits the text on newlines into columns:
\* the column of line i is placed at x*scaleFactor - i*lineHeight, its characters
\* are drawn centred in the column, character j at y*scaleFactor + j*lineHeight;
\* the text "A\nB" yields two columns of one character each.
C14_ExportVerticalLayout ==
    \A n \in DOMAIN downloads :
        LET d == downloads[n]
            s == d.from
            sf == ScaleFactorOf(d)
        IN  \A k \in DOMAIN s.layers :
                s.layers[k].orientation = "vertical" =>
                    LET l == s.layers[k]
                        lines == SplitLines(l.text)
                        ops == OpsOfLayer(d, k)
                        size == RMul(l.fontSize, sf)
                        lineHeight == RMul(size, Rat(6, 5))
                        centring == RDiv(RSub(lineHeight, size), R(2))
                        columnX(i) == RSub(RMul(l.x, sf), RMul(R(i), lineHeight))
                    IN  /\ \A i \in DOMAIN lines : \A j \in 1..Len(lines[i]) :
                              Len(SelectSeq(ops, LAMBDA o : o.line = i - 1
                                                          /\ o.char = j - 1)) = 1
                        /\ \A m \in DOMAIN ops :
                              /\ ops[m].line + 1 \in DOMAIN lines
                              /\ ops[m].char + 1 \in 1..Len(lines[ops[m].line + 1])
                              /\ ops[m].text = SubSeq(lines[ops[m].line + 1],
                                                      ops[m].char + 1, ops[m].char + 1)
                              /\ ops[m].x = RAdd(columnX(ops[m].line), centring)
                              /\ ops[m].y = RAdd(RMul(l.y, sf),
                                                 RMul(R(ops[m].char), lineHeight))
                        /\ l.text = "A\nB" =>
                              /\ Len(ops) = 2
                              /\ ops[1].text = "A" /\ ops[1].line = 0 /\ ops[1].char = 0
                              /\ ops[2].text = "B" /\ ops[2].line = 1 /\ ops[2].char = 0
                              /\ ops[1].x = RAdd(RMul(l.x, sf), centring)
                              /\ ops[2].x = RSub(ops[1].x, lineHeight)
                              /\ ops[1].y = ops[2].y

\* A square canvas with the vertical layer "A\nB" at (50, 50), font size 48, was
\* exported: two columns of one character, at 175.36 and 175.36 - 184.32.
C14_Witness ==
    /\ Len(downloads) > 0
    /\ downloads[1].from.aspectRatio = SQUARE
    /\ Len(downloads[1].from.layers) = 2
    /\ downloads[1].from.layers[2].orientation = "vertical"
    /\ Len(OpsOfLayer(downloads[1], 2)) = 2
    /\ OpsOfLayer(downloads[1], 2)[1].x = Rat(17536, 100)
    /\ OpsOfLayer(downloads[1], 2)[2].x = Rat(17536 - 18432, 100)
    /\ OpsOfLayer(downloads[1], 2)[2].y = R(160)

\* C15: export does not depend on the live view: two exports that read equal
\* CanvasStates, with the canvas element in the same format, draw the same raster
\* whatever the view transforms were; and no step of an export changes the
\* CanvasState or the view transform.
C15_ExportIgnoresView ==
    /\ [] (\A i, j \in DOMAIN downloads :
              (downloads[i].from = downloads[j].from
               /\ downloads[i].shown = downloads[j].shown)
              => downloads[i].raster = downloads[j].raster)
    /\ [][ExportStep => (state' = state /\ viewTransform' = viewTransform)]_vars

\* Two exports of the same state of two layers, the first at the initial view,
\* the second panned and zoomed to scale 2.
C15_Witness ==
    /\ Len(downloads) = 2
    /\ downloads[1].from = downloads[2].from
    /\ downloads[1].shown = downloads[2].shown
    /\ Len(downloads[1].from.layers) = 2
    /\ downloads[1].view = InitialViewTransform
    /\ downloads[2].view = [x |-> R(90), y |-> R(45), scale |-> R(2)]
    /\ downloads[1].raster = downloads[2].raster

(***************************************************************************)
(* ViewSpec: the view of the workspace (zoom by wheel and buttons, reset,  *)
(* pan by dragging the workspace) on the initial canvas, with wheel events *)
(* large enough to reach both ends of the zoom range.                      *)
(***************************************************************************)
ViewWheelDeltas == {-6000, -100, 100, 6000}

WheelEvent == \E deltaY \in ViewWheelDeltas, modifier \in BOOLEAN : handleWheel(deltaY, modifier)

ViewNext ==
    \/ WheelEvent
    \/ ZoomOutClick
    \/ ZoomInClick
    \/ ResetViewClick
    \/ WorkspaceMouseDown
    \/ MouseMovePan
    \/ MouseUp

ViewSpec == Init /\ [][ViewNext]_vars

(***************************************************************************)
(* RemovalSpec: the mask and the masked removal on a canvas whose          *)
(* background was uploaded and whose mask mode was entered.                *)
(***************************************************************************)
RemovalInitStates ==
    {toggleMaskMode(imgOnload(handleAspectRatioChange(InitialState, r), r, img), TRUE) :
        r \in AspectRatios, img \in Files}

RemovalInit ==
    /\ state \in RemovalInitStates
    /\ InitUi
    /\ InitExport
    /\ InitCopy
    /\ lastOp = [name |-> "init"]
    /\ pre = state
    /\ calls = <<>>

RemovalNext ==
    \/ EnterMaskModeClick
    \/ CancelMaskClick
    \/ ConfirmRemovalClick
    \/ RemovalImageDecoded
    \/ RemovalImageBroken
    \/ RemovalResolves
    \/ MaskMouseDown
    \/ MaskResizeMouseDown
    \/ MouseMoveMask
    \/ MouseUp

RemovalSpec == RemovalInit /\ [][RemovalNext]_vars

\* The browser fires one of load and error for the image, and the request to the
\* backend resolves or is rejected in the end.
RemovalLiveSpec ==
    /\ RemovalSpec
    /\ WF_vars(RemovalImageDecoded \/ RemovalImageBroken)
    /\ WF_vars(RemovalResolves)

(***************************************************************************)
(* CopySpec: the copy generation of the layer panel (handleAiGenerate and  *)
(* generateMarketingCopy) on a canvas of two layers, while layers are      *)
(* selected, deselected and deleted.                                       *)
(***************************************************************************)
\* The two fallback phrases of generateMarketingCopy (Chinese in the source).
FallbackNoClient == "FallbackNoClient"

FallbackError == "FallbackError"

WhiteSpace == {" ", "\n", "\t", "\r"}

\* String.prototype.trim.
RECURSIVE TrimStart(_)
TrimStart(text) ==
    IF text # "" /\ SubSeq(text, 1, 1) \in WhiteSpace
    THEN TrimStart(SubSeq(text, 2, Len(text)))
    ELSE text

RECURSIVE TrimEnd(_)
TrimEnd(text) ==
    IF text # "" /\ SubSeq(text, Len(text), Len(text)) \in WhiteSpace
    THEN TrimEnd(SubSeq(text, 1, Len(text) - 1))
    ELSE text

Trim(text) == TrimEnd(TrimStart(text))

\* What the text request can come to: no client (no API key), a thrown error, a
\* response whose text is undefined, or a response with this text.
CopyOutcomes ==
    {[kind |-> "noClient"], [kind |-> "throws"], [kind |-> "noText"]}
    \cup {[kind |-> "response", text |-> x] :
             x \in {"Big sale", "  Big sale \n", "", " \n "}}

\* generateMarketingCopy: reading .trim() of an undefined text throws inside the
\* try block and is caught like any other error.
generateMarketingCopy(outcome) ==
    CASE outcome.kind = "noClient" -> FallbackNoClient
      [] outcome.kind = "throws" -> FallbackError
      [] outcome.kind = "noText" -> FallbackError
      [] outcome.kind = "response" -> Trim(outcome.text)

Prompts == {"", "shoes"}

\* A canvas on which two layers were added.
CopyInitState == addLayer(addLayer(InitialState, "L1"), "L2")

CopyInit ==
    /\ state = CopyInitState
    /\ InitUi
    /\ InitExport
    /\ InitCopy
    /\ lastOp = [name |-> "init"]
    /\ pre = CopyInitState
    /\ calls = <<>>

\* The prompt input of the layer panel is edited.
PromptTyped ==
    /\ LayerPanel
    /\ \E p \in Prompts : aiPrompt' = p
    /\ lastOp' = [name |-> "setAiPrompt"]
    /\ UNCHANGED <<state, viewTransform, gestureVars, asyncVars, idCount, events,
                   pre, calls, pressed, listener, exportVars, isGeneratingCopy, copyJobs>>

\* A generate button that stays enabled while a request is pending.
GenerateClick_notDisabled ==
    /\ LayerPanel
    /\ aiPrompt # ""
    /\ isGeneratingCopy' = TRUE
    /\ copyJobs' = copyJobs \cup {[layerId |-> SelectedLayer.id, topic |-> aiPrompt]}
    /\ lastOp' = [name |-> "generateMarketingCopy"]
    /\ UNCHANGED <<state, viewTransform, gestureVars, asyncVars, idCount, events,
                   pre, calls, pressed, listener, exportVars, aiPrompt>>

\* handleAiGenerate up to the await; the button is enabled with a prompt and no
\* request being handled.
GenerateClick ==
    /\ LayerPanel
    /\ ~isGeneratingCopy
    /\ aiPrompt # ""
    /\ isGeneratingCopy' = TRUE
    /\ copyJobs' = copyJobs \cup {[layerId |-> SelectedLayer.id, topic |-> aiPrompt]}
    /\ lastOp' = [name |-> "generateMarketingCopy"]
    /\ UNCHANGED <<state, viewTransform, gestureVars, asyncVars, idCount, events,
                   pre, calls, pressed, listener, exportVars, aiPrompt>>

\* A resolution that writes the text to the layer selected when it arrives.
CopyResolves_currentSelection ==
    /\ \E job \in copyJobs, outcome \in CopyOutcomes :
          LET result == generateMarketingCopy(outcome)
          IN  /\ state' = updateLayer(state, state.selectedLayerId, [text |-> result])
              /\ copyJobs' = copyJobs \ {job}
              /\ lastOp' = [name |-> "handleAiGenerate", outcome |-> outcome,
                            layerId |-> job.layerId, result |-> result]
    /\ isGeneratingCopy' = FALSE
    /\ UNCHANGED <<viewTransform, gestureVars, asyncVars, idCount, events,
                   pre, calls, pressed, listener, exportVars, aiPrompt>>

\* generateMarketingCopy resolves and handleAiGenerate goes on: the text is
\* written to the layer the call read.
CopyResolves ==
    /\ \E job \in copyJobs, outcome \in CopyOutcomes :
          LET result == generateMarketingCopy(outcome)
          IN  /\ state' = updateLayer(state, job.layerId, [text |-> result])
              /\ copyJobs' = copyJobs \ {job}
              /\ lastOp' = [name |-> "handleAiGenerate", outcome |-> outcome,
                            layerId |-> job.layerId, result |-> result]
    /\ isGeneratingCopy' = FALSE
    /\ UNCHANGED <<viewTransform, gestureVars, asyncVars, idCount, events,
                   pre, calls, pressed, listener, exportVars, aiPrompt>>

CopyNext ==
    \/ PromptTyped
    \/ GenerateClick
    \/ CopyResolves
    \/ LayerMouseDown
    \/ CanvasMouseDown
    \/ MouseUp
    \/ DeleteLayerClick

CopySpec == CopyInit /\ [][CopyNext]_vars

(***************************************************************************)
(* RequestSpec: the two requests of Controls side by side, the text        *)
(* generation of the layer panel and the inpainting of the mask panel,     *)
(* from a document with a background image and two layers; a new          *)
(* background may be uploaded meanwhile.                                   *)
(***************************************************************************)

RequestInitStates ==
    LET withImage == imgOnload(CopyInitState, SQUARE, "imgA")
    IN  {withImage, toggleMaskMode(withImage, TRUE)}

RequestInit ==
    /\ state \in RequestInitStates
    /\ InitUi
    /\ InitExport
    /\ InitCopy
    /\ lastOp = [name |-> "init"]
    /\ pre = state
    /\ calls = <<>>

RequestNext ==
    \/ PromptTyped
    \/ GenerateClick
    \/ CopyResolves
    \/ EnterMaskModeClick
    \/ CancelMaskClick
    \/ ConfirmRemovalClick
    \/ RemovalImageDecoded
    \/ RemovalImageBroken
    \/ RemovalResolves
    \/ FileSelected
    \/ ImgOnload
    \/ LayerMouseDown
    \/ CanvasMouseDown
    \/ MouseUp

RequestSpec == RequestInit /\ [][RequestNext]_vars

(***************************************************************************)
(* GestureSpec: the pointer gestures of CanvasArea under every sequence of *)
(* mouse-down, mouse-move and mouse-up events.  A mouse-down names the     *)
(* element under the pointer and the button; it is handed to the           *)
(* onMouseDown handlers from that element outwards until one stops it.  A  *)
(* mouse-down may follow a mouse-down (a second button, or a release the   *)
(* window did not receive).                                                *)
(***************************************************************************)
\* The gesture state of CanvasArea as one record.
Gestures ==
    [isDraggingLayer |-> isDraggingLayer,
     resizeState |-> resizeState,
     isDraggingBg |-> isDraggingBg,
     bgDragStart |-> bgDragStart,
     maskInteraction |-> maskInteraction,
     isPanningView |-> isPanningView,
     viewPanStart |-> viewPanStart]

\* e.button: the main button and the secondary button.
Buttons == {0, 2}

\* Where a mouse-down lands on the screen (clientX, clientY), and where a press on
\* the image lands relative to the centre of the image as displayed.
PressPoints == {[x |-> 30, y |-> 60]}

ClickPoints == {[x |-> 90, y |-> 45]}

\* The elements a mouse-down can land on, with the layer and the handle where
\* the element belongs to one.  Layers are rendered outside mask mode, the
\* handles on the selected layer, the mask and its handle in mask mode over an
\* image.
Targets ==
    {[kind |-> k] : k \in {"canvas", "workspace", "zoomControls"}}
    \cup {[kind |-> "image", c |-> c] :
             c \in IF state.backgroundImage # null THEN ClickPoints ELSE {}}
    \cup {[kind |-> k] : k \in IF MaskOverlay THEN {"mask", "maskHandle"} ELSE {}}
    \cup {[kind |-> "layer", layer |-> state.layers[i]] :
             i \in IF state.isMaskMode THEN {} ELSE DOMAIN state.layers}
    \cup {[kind |-> "handle", layer |-> SelectedLayer, handle |-> h] :
             h \in IF ~state.isMaskMode /\ SelectedLayerExists THEN Handles ELSE {}}

\* The onMouseDown handlers on the path from the element to the root, innermost
\* first.
HandlerChain(kind) ==
    CASE kind = "handle" ->
             <<"handleResizeMouseDown", "handleLayerMouseDown",
               "handleCanvasMouseDown", "handleWorkspaceMouseDown">>
      [] kind = "layer" ->
             <<"handleLayerMouseDown", "handleCanvasMouseDown",
               "handleWorkspaceMouseDown">>
      [] kind = "maskHandle" ->
             <<"handleMaskResizeMouseDown", "handleMaskMouseDown",
               "handleCanvasMouseDown", "handleWorkspaceMouseDown">>
      [] kind = "mask" ->
             <<"handleMaskMouseDown", "handleCanvasMouseDown",
               "handleWorkspaceMouseDown">>
      [] kind \in {"image", "canvas"} ->
             <<"handleCanvasMouseDown", "handleWorkspaceMouseDown">>
      [] kind \in {"workspace", "zoomControls"} ->
             <<"handleWorkspaceMouseDown">>

\* The handlers as functions of what the handlers before them on the path left
\* (acc: the CanvasState s, the gesture state g, stopped) and of the event e
\* (target, button, clientX x, clientY y).  Each reads the props and the view of the current render.
handleLayerMouseDown(acc, e) ==
    IF state.isMaskMode
    THEN acc
    ELSE [acc EXCEPT !.stopped = TRUE,
                     !.s = selectLayer(@, e.target.layer.id),
                     !.g.isDraggingLayer = TRUE]

handleResizeMouseDown(acc, e) ==
    IF state.isMaskMode
    THEN acc
    ELSE [acc EXCEPT !.stopped = TRUE,
                     !.g.resizeState = [isResizing |-> TRUE,
                                        startY |-> R(e.y),
                                        startFontSize |-> e.target.layer.fontSize,
                                        layerId |-> e.target.layer.id,
                                        handle |-> e.target.handle]]

handleMaskMouseDown(acc, e) ==
    IF ~state.isMaskMode \/ state.maskRect = NoRect
    THEN acc
    ELSE [acc EXCEPT !.stopped = TRUE,
                     !.g.maskInteraction = [type |-> "drag",
                                            startX |-> R(e.x), startY |-> R(e.y),
                                            initialRect |-> state.maskRect]]

handleMaskResizeMouseDown(acc, e) ==
    IF ~state.isMaskMode \/ state.maskRect = NoRect
    THEN acc
    ELSE [acc EXCEPT !.stopped = TRUE,
                     !.g.maskInteraction = [type |-> "resize",
                                            startX |-> R(e.x), startY |-> R(e.y),
                                            initialRect |-> state.maskRect]]

handleCanvasMouseDown(acc, e) ==
    IF state.isMaskMode
    THEN IF e.target.kind = "image" /\ state.maskRect # NoRect
         THEN LET scaleFactor == RMul(state.backgroundTransform.scale,
                                      viewTransform.scale)
                  newX == RDiv(R(e.target.c.x), scaleFactor)
                  newY == RDiv(R(e.target.c.y), scaleFactor)
              IN  [acc EXCEPT !.stopped = TRUE,
                              !.s = updateMaskRect(@, [x |-> newX, y |-> newY])]
         ELSE acc
    ELSE IF e.button = 0
         THEN [acc EXCEPT
                  !.stopped = TRUE,
                  !.s = selectLayer(@, null),
                  !.g.isDraggingBg = TRUE,
                  !.g.bgDragStart =
                      [x |-> RSub(R(e.x), RMul(state.backgroundTransform.x,
                                               viewTransform.scale)),
                       y |-> RSub(R(e.y), RMul(state.backgroundTransform.y,
                                               viewTransform.scale))]]
         ELSE acc

handleWorkspaceMouseDown(acc, e) ==
    IF e.button = 0
    THEN [acc EXCEPT
             !.s = IF ~state.isMaskMode THEN selectLayer(@, null) ELSE @,
             !.g.isPanningView = TRUE,
             !.g.viewPanStart = [x |-> RSub(R(e.x), viewTransform.x),
                                 y |-> RSub(R(e.y), viewTransform.y)]]
    ELSE acc

CallHandler(name, acc, e) ==
    CASE name = "handleLayerMouseDown" -> handleLayerMouseDown(acc, e)
      [] name = "handleResizeMouseDown" -> handleResizeMouseDown(acc, e)
      [] name = "handleMaskMouseDown" -> handleMaskMouseDown(acc, e)
      [] name = "handleMaskResizeMouseDown" -> handleMaskResizeMouseDown(acc, e)
      [] name = "handleCanvasMouseDown" -> handleCanvasMouseDown(acc, e)
      [] name = "handleWorkspaceMouseDown" -> handleWorkspaceMouseDown(acc, e)

RECURSIVE Propagate_neverStopped(_, _, _)
RECURSIVE Propagate(_, _, _)

\* A variant in which e.stopPropagation() has no effect.
Propagate_neverStopped(chain, acc, e) ==
    IF chain = <<>>
    THEN acc
    ELSE Propagate_neverStopped(Tail(chain), CallHandler(Head(chain), acc, e), e)

\* The event travels outwards until a handler has stopped it.
Propagate(chain, acc, e) ==
    IF chain = <<>> \/ acc.stopped
    THEN acc
    ELSE Propagate(Tail(chain), CallHandler(Head(chain), acc, e), e)

\* The outcome of a mouse-down event.
Dispatch(e) ==
    Propagate(HandlerChain(e.target.kind),
              [s |-> state, g |-> Gestures, stopped |-> FALSE], e)

GestureInitStates ==
    LET withImage == imgOnload(CopyInitState, SQUARE, "imgA")
    IN  {CopyInitState, withImage, toggleMaskMode(withImage, TRUE)}

GestureInit ==
    /\ state \in GestureInitStates
    /\ InitUi
    /\ InitExport
    /\ InitCopy
    /\ lastOp = [name |-> "init"]
    /\ pre = state
    /\ calls = <<>>

\* The gestures that are active.
ActiveGestures ==
    {gesture \in {"mask", "layer-resize", "layer-drag", "background-drag", "pan"} :
        CASE gesture = "mask" -> maskInteraction.type # null
          [] gesture = "layer-resize" -> resizeState.isResizing
          [] gesture = "layer-drag" -> isDraggingLayer
          [] gesture = "background-drag" -> isDraggingBg
          [] gesture = "pan" -> isPanningView}

\* How many gestures a mouse-down may find active.
MaxActive == 1

\* A mouse-down event on an element of CanvasArea.
MouseDown ==
    /\ Cardinality(ActiveGestures) <= MaxActive
    /\ \E target \in Targets, button \in Buttons, p \in PressPoints :
          \E r \in {Dispatch([target |-> target, button |-> button,
                               x |-> p.x, y |-> p.y])} :
              /\ state' = r.s
              /\ isDraggingLayer' = r.g.isDraggingLayer
              /\ resizeState' = r.g.resizeState
              /\ isDraggingBg' = r.g.isDraggingBg
              /\ bgDragStart' = r.g.bgDragStart
              /\ maskInteraction' = r.g.maskInteraction
              /\ isPanningView' = r.g.isPanningView
              /\ viewPanStart' = r.g.viewPanStart
              /\ lastOp' = [name |-> "mousedown", target |-> target.kind,
                            button |-> button, x |-> p.x, y |-> p.y]
              /\ pressed' = [target |-> target.kind, button |-> button,
                             x |-> p.x, y |-> p.y,
                             backgroundTransform |-> state.backgroundTransform,
                             maskRect |-> state.maskRect,
                             scale |-> viewTransform.scale]
    /\ UNCHANGED <<viewTransform, asyncVars, idCount, events, pre, calls, listener,
                   exportVars, copyVars>>

GestureNext ==
    \/ MouseDown
    \/ MouseMoveMask
    \/ MouseMoveResize
    \/ MouseMoveLayer
    \/ MouseMoveBg
    \/ MouseMovePan
    \/ MouseUp
    \/ Wheel

GestureSpec == GestureInit /\ [][GestureNext]_vars

(***************************************************************************)
(* ListenerSpec: a layer drag with the mousemove listener as the effect    *)
(* registers it.  handleMouseMove is a native listener on window, defined  *)
(* inside the effect, and reads the props and the state of the render in   *)
(* which the effect ran; the effect runs again, after the render, when one *)
(* of its dependencies has changed.  Moves may arrive before that.         *)
(***************************************************************************)

\* The values of the current render that the layer-drag branch of the listener
\* reads.
ListenerRender ==
    [isDraggingLayer |-> isDraggingLayer,
     selectedLayerId |-> state.selectedLayerId,
     layers |-> state.layers,
     scale |-> viewTransform.scale]

ListenerMovements == {[x |-> 9, y |-> -18], [x |-> -4, y |-> 6]}

ListenerInit ==
    /\ state = CopyInitState
    /\ InitUi
    /\ InitExport
    /\ InitCopy
    /\ lastOp = [name |-> "init"]
    /\ pre = CopyInitState
    /\ calls = <<>>

\* The effect runs after a render that changed a dependency: the old listener is
\* removed and one that reads the current render is added.
EffectRuns ==
    /\ listener # ListenerRender
    /\ listener' = ListenerRender
    /\ lastOp' = [name |-> "useEffect"]
    /\ UNCHANGED <<state, viewTransform, gestureVars, asyncVars, idCount, events,
                   pre, calls, pressed, exportVars, copyVars>>

\* handleLayerMouseDown; pressed keeps the position of the layer at the press and
\* the pointer movement since.
ListenerLayerMouseDown ==
    /\ PointerUp
    /\ ~state.isMaskMode
    /\ \E i \in DOMAIN state.layers :
          /\ state' = selectLayer(state, state.layers[i].id)
          /\ lastOp' = [name |-> "handleLayerMouseDown", id |-> state.layers[i].id]
          /\ pressed' = [target |-> "layer", id |-> state.layers[i].id,
                         x |-> state.layers[i].x, y |-> state.layers[i].y,
                         scale |-> viewTransform.scale,
                         moved |-> [x |-> 0, y |-> 0]]
    /\ isDraggingLayer' = TRUE
    /\ UNCHANGED <<viewTransform, resizeState, isDraggingBg, bgDragStart,
                   maskInteraction, isPanningView, viewPanStart, asyncVars,
                   idCount, events, pre, calls, listener, exportVars, copyVars>>

\* The layer-drag branch of the registered handleMouseMove: the flag, the
\* selection, the layers and the scale are those of the listener's render; the
\* update goes through updateLayer to the current state.
ListenerMouseMove ==
    /\ listener # NoRequest
    /\ listener.isDraggingLayer
    /\ listener.selectedLayerId # null
    /\ listener.selectedLayerId \in LayerIdsOf(listener.layers)
    /\ CountEvent
    /\ \E m \in ListenerMovements :
          LET currentLayer ==
                  listener.layers[CHOOSE i \in DOMAIN listener.layers :
                                     listener.layers[i].id = listener.selectedLayerId]
          IN  /\ state' = updateLayer(state, listener.selectedLayerId,
                                      LayerDragUpdate(currentLayer, m.x, m.y,
                                                      listener.scale))
              /\ lastOp' = [name |-> "handleMouseMove", gesture |-> "layer-drag",
                            movement |-> m]
              /\ pressed' = IF pressed = NoRequest
                            THEN pressed
                            ELSE [pressed EXCEPT !.moved = [x |-> @.x + m.x,
                                                            y |-> @.y + m.y]]
    /\ UNCHANGED <<viewTransform, gestureVars, asyncVars, idCount, pre, calls,
                   listener, exportVars, copyVars>>

ListenerNext ==
    \/ ListenerLayerMouseDown
    \/ EffectRuns
    \/ ListenerMouseMove
    \/ MouseUp

ListenerSpec == ListenerInit /\ [][ListenerNext]_vars

(* ----------------------- Claims on ListenerSpec ------------------------ *)

\* The layer that was pressed.
PressedLayer == LayerById(state, pressed.id)

\* C37: no movement is lost during a layer drag: after every sequence of moves
\* of one gesture at a constant view scale s, several of them handled before
\* the next render included, the layer is at its position at the press plus the
\* sum of the movements over s.
C37_NoMovementLost ==
    (/\ pressed # NoRequest
     /\ isDraggingLayer
     /\ pressed.id \in LayerIdsOf(state.layers))
    => /\ PressedLayer.x = RAdd(pressed.x, RDiv(R(pressed.moved.x), pressed.scale))
       /\ PressedLayer.y = RAdd(pressed.y, RDiv(R(pressed.moved.y), pressed.scale))

(* ----------------------- Claims on GestureSpec ------------------------- *)

\* C21: for every sequence of mouse-down, mouse-move and mouse-up events at most
\* one of mask interaction, layer resizing, layer dragging, background dragging
\* and view panning is set.
C21_AtMostOneGesture == Cardinality(ActiveGestures) <= 1

\* The gestures in the order handleMouseMove tests them.
GestureOrder == <<"mask", "layer-resize", "layer-drag", "background-drag", "pan">>

\* The first gesture of the order that is in the set, or null.
FirstOf(gestures) ==
    IF gestures = {}
    THEN null
    ELSE GestureOrder[CHOOSE i \in DOMAIN GestureOrder :
                         /\ GestureOrder[i] \in gestures
                         /\ \A j \in 1..(i - 1) : GestureOrder[j] \notin gestures]

\* The gesture a mouse-down on this element starts, if any: the one of the
\* innermost element on the path that takes the event.  In mask mode the canvas
\* does not take it and a press beside the image reaches the workspace; the
\* canvas and the workspace take the main button only.
ClaimedGesture(target, button) ==
    CASE target \in {"mask", "maskHandle"} -> {"mask"}
      [] target = "handle" -> {"layer-resize"}
      [] target = "layer" -> {"layer-drag"}
      [] target \in {"image", "canvas"} /\ ~state.isMaskMode ->
             IF button = 0 THEN {"background-drag"} ELSE {}
      [] target = "image" /\ state.isMaskMode -> {}
      [] target = "canvas" /\ state.isMaskMode ->
             IF button = 0 THEN {"pan"} ELSE {}
      [] target \in {"workspace", "zoomControls"} ->
             IF button = 0 THEN {"pan"} ELSE {}

\* A mouse-down starts the gesture of the element that takes it and no other.
PressStartsOneGesture ==
    lastOp'.name = "mousedown" =>
        LET claimed == ClaimedGesture(lastOp'.target, lastOp'.button)
        IN  /\ (ActiveGestures' \ ActiveGestures) \subseteq claimed
            /\ claimed \subseteq ActiveGestures'
            /\ lastOp'.target = "maskHandle" => maskInteraction'.type = "resize"
            /\ lastOp'.target = "mask" => maskInteraction'.type = "drag"
            /\ "layer-drag" \notin claimed => isDraggingLayer' = isDraggingLayer
            /\ "layer-resize" \notin claimed => resizeState' = resizeState
            /\ "mask" \notin claimed => maskInteraction' = maskInteraction
            /\ "background-drag" \notin claimed =>
                  isDraggingBg' = isDraggingBg /\ bgDragStart' = bgDragStart
            /\ "pan" \notin claimed =>
                  isPanningView' = isPanningView /\ viewPanStart' = viewPanStart

\* The gesture a mouse-move applied.
AppliedGesture(op) == IF op.gesture \in {"drag", "resize"} THEN "mask" ELSE op.gesture

\* A mouse-move writes what its gesture is about and nothing else.
MoveAppliesOnly(gesture) ==
    /\ UNCHANGED gestureVars
    /\ gesture # "pan" => viewTransform' = viewTransform
    /\ gesture = "pan" => state' = state /\ viewTransform'.scale = viewTransform.scale
    /\ gesture = "mask" => state' = [state EXCEPT !.maskRect = state'.maskRect]
    /\ gesture \in {"layer-resize", "layer-drag"} =>
          state' = [state EXCEPT !.layers = state'.layers]
    /\ gesture = "background-drag" =>
          state' = [state EXCEPT !.backgroundTransform = state'.backgroundTransform]

\* The gestures that are active and have something to act on.
EffectiveGestures ==
    {gesture \in ActiveGestures :
        CASE gesture = "mask" -> state.isMaskMode /\ maskInteraction.initialRect # NoRect
          [] gesture = "layer-resize" -> resizeState.layerId # null
          [] gesture = "layer-drag" -> state.selectedLayerId # null
          [] gesture = "background-drag" -> state.backgroundImage # null
          [] gesture = "pan" -> TRUE}

C23_MouseUpEndsGestures ==
    [][/\ lastOp'.name = "handleMouseUp" =>
             /\ ActiveGestures' = {}
             /\ state' = state
             /\ viewTransform' = viewTransform
       /\ ActiveGestures = {} /\ lastOp'.name \notin {"mousedown", "handleWheel"} =>
             /\ ActiveGestures' = {}
             /\ state' = state
             /\ viewTransform' = viewTransform]_vars

\* A mouse-up has ended a mask resize that a move had applied.
C23_Witness ==
    /\ lastOp.name = "handleMouseUp"
    /\ state.isMaskMode
    /\ state.maskRect.width # DefaultMask.width
    /\ ActiveGestures = {}

\* C24: the mouse-move and mouse-up listeners are on window exactly while a
\* gesture is active: none in the idle state, both during a gesture.
C24_ListenersOnlyDuringGesture ==
    /\ ActiveGestures = {} => WindowListeners = {}
    /\ ActiveGestures # {} => WindowListeners = {"mousemove", "mouseup"}

\* The last press was a left press on the canvas or its image outside mask
\* mode: the press that starts a background drag.
PressStartedBgDrag ==
    /\ pressed # NoRequest
    /\ pressed.button = 0
    /\ pressed.target \in {"canvas", "image"}
    /\ ~state.isMaskMode

\* After a background-drag move at the view scale of the press, the translation
\* is the translation at the press plus the pointer displacement over the
\* scale, and the background scale is the one at the press.
BgDragAbsolute ==
    (/\ lastOp.name = "handleMouseMove"
     /\ lastOp.gesture = "background-drag"
     /\ PressStartedBgDrag
     /\ viewTransform.scale = pressed.scale)
    => /\ state.backgroundTransform.x =
             RAdd(pressed.backgroundTransform.x,
                  RDiv(RSub(R(lastOp.point.x), R(pressed.x)), pressed.scale))
       /\ state.backgroundTransform.y =
             RAdd(pressed.backgroundTransform.y,
                  RDiv(RSub(R(lastOp.point.y), R(pressed.y)), pressed.scale))
       /\ state.backgroundTransform.scale = pressed.backgroundTransform.scale

\* While a background drag is on and no background image is loaded, no step
\* changes the background transform.
NoImageNoBgDrag ==
    (isDraggingBg /\ state.backgroundImage = null)
    => state'.backgroundTransform = state.backgroundTransform

\* C27: a background drag tracks the pointer absolutely: with the view scale s
\* of the press, a move to p sets (x, y) = (x0, y0) + (p - p0) / s, where p0 and
\* (x0, y0) are the pointer and the translation at the press; the background
\* scale is unchanged, and without a background image the drag changes nothing.
C27_BgDragTracksPointer == [] BgDragAbsolute /\ [][NoImageNoBgDrag]_vars

\* A background drag at a view scale other than 1 has moved the image.
C27_Witness ==
    /\ lastOp.name = "handleMouseMove"
    /\ lastOp.gesture = "background-drag"
    /\ PressStartedBgDrag
    /\ viewTransform.scale = pressed.scale
    /\ viewTransform.scale # R(1)
    /\ state.backgroundTransform.x # pressed.backgroundTransform.x

\* The product of the view scale and the background scale: screen pixels per
\* image pixel.
TotalScale == RMul(viewTransform.scale, state.backgroundTransform.scale)

\* The last press was on the mask overlay (not on its handle) in mask mode.
PressStartedMaskDrag ==
    /\ pressed # NoRequest
    /\ pressed.target = "mask"
    /\ pressed.maskRect # NoRect

\* C28: after a mask-drag move to a pointer at screen delta (dx, dy) from the
\* press, the mask centre is the centre at the press plus (dx, dy) over (view
\* scale * background scale), and the width and the height are those at the
\* press.
C28_MaskDragTracksPointer ==
    (/\ lastOp.name = "handleMouseMove"
     /\ lastOp.gesture = "drag"
     /\ PressStartedMaskDrag)
    => /\ state.maskRect.x =
             RAdd(pressed.maskRect.x,
                  RDiv(RSub(R(lastOp.point.x), R(pressed.x)), TotalScale))
       /\ state.maskRect.y =
             RAdd(pressed.maskRect.y,
                  RDiv(RSub(R(lastOp.point.y), R(pressed.y)), TotalScale))
       /\ state.maskRect.width = pressed.maskRect.width
       /\ state.maskRect.height = pressed.maskRect.height

\* A mask drag at a total scale other than 1 has moved the mask in both axes.
C28_Witness ==
    /\ lastOp.name = "handleMouseMove"
    /\ lastOp.gesture = "drag"
    /\ PressStartedMaskDrag
    /\ TotalScale # R(1)
    /\ state.maskRect.x # pressed.maskRect.x
    /\ state.maskRect.y # pressed.maskRect.y

\* The top-left corner of a centre-anchored rectangle.
TopLeft(rect) ==
    [x |-> RSub(rect.x, RDiv(rect.width, R(2))),
     y |-> RSub(rect.y, RDiv(rect.height, R(2)))]

\* The last press was on the resize handle of the mask in mask mode.
PressStartedMaskResize ==
    /\ pressed # NoRequest
    /\ pressed.target = "maskHandle"
    /\ pressed.maskRect # NoRect

\* C29: after a mask-resize move, whatever the pointer delta and also when the
\* minimum size of 20 was applied, the top-left corner (x - width/2,
\* y - height/2) of the stored rectangle is the corner at the press.
C29_MaskResizeKeepsCorner ==
    (/\ lastOp.name = "handleMouseMove"
     /\ lastOp.gesture = "resize"
     /\ PressStartedMaskResize)
    => TopLeft(state.maskRect) = TopLeft(pressed.maskRect)

\* A mask-resize move whose delta would take both sizes below 20: the sizes are
\* 20 and differ from those at the press.
C29_Witness ==
    /\ lastOp.name = "handleMouseMove"
    /\ lastOp.gesture = "resize"
    /\ PressStartedMaskResize
    /\ state.maskRect.width = R(20)
    /\ state.maskRect.height = R(20)
    /\ RLt(RAdd(pressed.maskRect.width,
                RDiv(RSub(R(lastOp.point.x), R(pressed.x)), TotalScale)), R(20))
    /\ pressed.maskRect.width # R(20)

(* ------------------------ Claims on ViewSpec -------------------------- *)

ScaleInRange(v) == RLe(Rat(1, 10), v.scale) /\ RLe(v.scale, R(5))

Clamp(q, lo, hi) == IF RLt(q, lo) THEN lo ELSE IF RLt(hi, q) THEN hi ELSE q

SamePan(v, w) == v.x = w.x /\ v.y = w.y

\* What each view control does to the view transform.
ViewStep ==
    /\ lastOp'.name = "handleWheel" /\ lastOp'.modifier =>
          /\ viewTransform'.scale =
                Clamp(RSub(viewTransform.scale, RMul(R(lastOp'.deltaY), Rat(1, 1000))),
                      Rat(1, 10), R(5))
          /\ SamePan(viewTransform', viewTransform)
          /\ state' = state
    /\ lastOp'.name = "handleWheel" /\ ~lastOp'.modifier =>
          /\ viewTransform' = viewTransform
          /\ state' = state
    /\ lastOp'.name = "zoomOut" =>
          /\ viewTransform'.scale =
                Clamp(RSub(viewTransform.scale, Rat(1, 10)), Rat(1, 10), R(5))
          /\ SamePan(viewTransform', viewTransform)
    /\ lastOp'.name = "zoomIn" =>
          /\ viewTransform'.scale =
                Clamp(RAdd(viewTransform.scale, Rat(1, 10)), Rat(1, 10), R(5))
          /\ SamePan(viewTransform', viewTransform)
    /\ lastOp'.name = "resetView" =>
          viewTransform' = [x |-> R(0), y |-> R(0), scale |-> Rat(9, 10)]

\* C20: in every reachable state the view scale lies in [0.1, 5]; a wheel event
\* with the modifier key sets the scale to clamp(scale - deltaY * 0.001, 0.1, 5)
\* and leaves the pan; a wheel event without it changes nothing; the - and +
\* buttons step the scale by 0.1 within the same bounds; reset sets the view to
\* {x: 0, y: 0, scale: 0.9}.
C20_ViewScaleBounded == [] ScaleInRange(viewTransform) /\ [][ViewStep]_vars

\* A panned view was zoomed by the wheel to an end of the range.
C20_Witness ==
    /\ lastOp.name = "handleWheel"
    /\ lastOp.modifier
    /\ lastOp.deltaY \in {-6000, 6000}
    /\ viewTransform.scale \in {Rat(1, 10), R(5)}
    /\ viewTransform.x # R(0)

(* -------------------- Claims on RemovalLiveSpec ----------------------- *)

\* C38: a confirmed masked removal always finishes: after handleConfirmRemoval
\* has started, isRemovingWatermark returns to false, whether the decode of the
\* background and the request succeed or fail.
C38_RemovalFinishes == isRemovingWatermark ~> ~isRemovingWatermark

(* ---------------------- Claims on RemovalSpec ------------------------- *)

\* C19: the rectangle burned into the image sent for inpainting has its top-left
\* corner at (imgWidth/2 + mask.x - mask.width/2, imgHeight/2 + mask.y -
\* mask.height/2) and the size of the mask, for the image and the mask of the
\* confirm click, and is the rectangle the overlay showed on the live image at
\* that click, in the pixels of the image.
C19_BurnedRectIsOverlay ==
    lastOp.name = "removeImageWatermark" =>
        LET mask == removal.maskRect
            imgWidth == R(NaturalWidth(removal.image))
            imgHeight == R(NaturalHeight(removal.image))
            burned == lastOp.burned
        IN  /\ burned.x = RSub(RAdd(RDiv(imgWidth, R(2)), mask.x),
                               RDiv(mask.width, R(2)))
            /\ burned.y = RSub(RAdd(RDiv(imgHeight, R(2)), mask.y),
                               RDiv(mask.height, R(2)))
            /\ burned.width = mask.width
            /\ burned.height = mask.height
            /\ burned.x = removal.shown.left
            /\ burned.y = removal.shown.top
            /\ burned.width = removal.shown.width
            /\ burned.height = removal.shown.height

\* A mask that was dragged and resized is burned in.
C19_Witness ==
    /\ lastOp.name = "removeImageWatermark"
    /\ removal.maskRect # DefaultMask
    /\ removal.maskRect.x # R(0)
    /\ removal.shown.left = lastOp.burned.x

(* ---------------------- Claims on RequestSpec ------------------------- *)

\* While a request is pending its control is disabled, and no more than one
\* request of a kind is pending.
DisabledWhilePending ==
    /\ Cardinality(copyJobs) <= 1
    /\ copyJobs # {} => isGeneratingCopy
    /\ removal # NoRequest => isRemovingWatermark

\* A step that issues a request starts from a state with no pending request of
\* that kind and an enabled control.
StartsWhenIdle ==
    /\ Cardinality(copyJobs') > Cardinality(copyJobs)
          => copyJobs = {} /\ ~isGeneratingCopy
    /\ (lastOp'.name = "executeMaskedRemoval" /\ events' # events)
          => removal = NoRequest /\ ~isRemovingWatermark

\* A step that enables a control again handles the result of its request.
EnabledByResult ==
    /\ (isGeneratingCopy /\ ~isGeneratingCopy')
          => lastOp'.name = "handleAiGenerate" /\ copyJobs' = {}
    /\ (isRemovingWatermark /\ ~isRemovingWatermark')
          => lastOp'.name = "handleConfirmRemoval" /\ removal' = NoRequest

\* C35: an inpainting result is applied only to the background image it was
\* computed from: when a new background image was loaded while the request was
\* pending, the result that arrives later does not replace the new image.
C35_ResultForItsImage ==
    [][(/\ removal # NoRequest
        /\ removal' = NoRequest
        /\ state'.backgroundImage # state.backgroundImage)
       => state.backgroundImage = removal.image]_vars

\* C30: at most one inpainting request and at most one text-generation request
\* is pending at any time: the control that issues a request is disabled from
\* the step that issues it until the step that handles its result.
C30_OneRequestInFlight ==
    [] DisabledWhilePending /\ [][StartsWhenIdle /\ EnabledByResult]_vars

\* A text generation and an inpainting are pending together, one of each, the
\* inpainting already sent to the backend.
C30_Witness ==
    /\ Cardinality(copyJobs) = 1
    /\ removal # NoRequest
    /\ removal.phase = "requesting"
    /\ isGeneratingCopy
    /\ isRemovingWatermark

(* ----------------------- Claims on CopySpec --------------------------- *)

\* A request is issued for the layer selected at the click.
CopyIssuedForSelection ==
    \A job \in copyJobs' \ copyJobs : job.layerId = state.selectedLayerId

\* The step that handles the text writes it to the layer of the request, if it
\* is still there, and changes nothing else.
CopyWrittenToItsLayer ==
    lastOp'.name = "handleAiGenerate" /\ copyJobs' # copyJobs =>
        /\ \E job \in copyJobs \ copyJobs' : job.layerId = lastOp'.layerId
        /\ Len(state'.layers) = Len(state.layers)
        /\ \A i \in DOMAIN state.layers :
              state'.layers[i] =
                  IF state.layers[i].id = lastOp'.layerId
                  THEN [state.layers[i] EXCEPT !.text = lastOp'.result]
                  ELSE state.layers[i]
        /\ [state' EXCEPT !.layers = state.layers] = state

\* C39: the text a text-generation request returns is written to the layer that
\* was selected when the request was issued, also when the selection changed
\* meanwhile; when that layer was deleted meanwhile the layers are unchanged and
\* no other layer receives the text.
C39_CopyWrittenToIssuingLayer ==
    [][CopyIssuedForSelection /\ CopyWrittenToItsLayer]_vars

\* The text was written to the layer of the request while another layer is
\* selected.
C39_Witness ==
    /\ lastOp.name = "handleAiGenerate"
    /\ state.selectedLayerId # null
    /\ state.selectedLayerId # lastOp.layerId
    /\ lastOp.layerId \in LayerIdsOf(state.layers)
    /\ LayerById(state, lastOp.layerId).text = lastOp.result
    /\ SelectedLayer.text = DefaultText

\* C17: generateMarketingCopy resolves to a non-empty phrase for every outcome of
\* the backend (no API key, a thrown error, a response without text, an empty or
\* whitespace-only text, a normal text), and to a fallback phrase on every failure.
C17_CopyNeverEmpty ==
    lastOp.name = "handleAiGenerate" =>
        /\ lastOp.result # null
        /\ lastOp.result # ""
        /\ lastOp.outcome.kind # "response" =>
              lastOp.result \in {FallbackNoClient, FallbackError}

(* ------------------------- Claims on Spec ----------------------------- *)

\* No two layers of the collection share an id.
UniqueLayerIds ==
    \A i, j \in DOMAIN state.layers :
        i # j => state.layers[i].id # state.layers[j].id

\* An addLayer step appends one layer with an unused id and the defaults, and
\* leaves the layers before it as they were.
AddLayerAppends ==
    (lastOp'.name = "addLayer" /\ idCount' # idCount) =>
        /\ Len(state'.layers) = Len(state.layers) + 1
        /\ SubSeq(state'.layers, 1, Len(state.layers)) = state.layers
        /\ LET new == state'.layers[Len(state'.layers)]
           IN  /\ new.id \notin LayerIdsOf(state.layers)
               /\ new.text = DefaultText
               /\ new.x = R(50)
               /\ new.y = R(50)
               /\ new.fontSize = R(48)
               /\ new.color = "#ffffff"
               /\ new.fontWeight = "bold"
               /\ new.orientation = "horizontal"

\* C32: layer ids are unique in every reachable state: addLayer appends at the
\* end one layer with an id no existing layer has and the defaults (the default
\* text, x = 50, y = 50, fontSize 48, color #ffffff, bold, horizontal), leaves
\* the existing layers unchanged, and no operation makes two layers share an id.
C32_LayerIdsUnique == [] UniqueLayerIds /\ [][AddLayerAppends]_vars

\* A layer was added to a collection that held a layer whose fields had been
\* changed.
C32_Witness ==
    /\ lastOp.name = "addLayer"
    /\ Len(state.layers) = 2
    /\ state.layers[1] # NewLayer(state.layers[1].id)

FontSizesAtLeast12 ==
    \A i \in DOMAIN state.layers : RLe(R(12), state.layers[i].fontSize)

\* A press on a handle captures the pointer position and the font size of the
\* layer; each move computes the font size from the captured values.
ResizeStep ==
    /\ lastOp'.name = "handleResizeMouseDown" =>
          /\ resizeState'.startY = R(lastOp'.y)
          /\ resizeState'.startFontSize = SelectedLayer.fontSize
          /\ resizeState'.layerId = state.selectedLayerId
          /\ resizeState'.handle = lastOp'.handle
    /\ lastOp'.name = "handleMouseMove" /\ lastOp'.gesture = "layer-resize"
       /\ resizeState.layerId \in LayerIdsOf(state.layers) =>
          LET d == IF resizeState.handle \in {"bl", "br"} THEN R(1) ELSE R(-1)
              raw == RAdd(resizeState.startFontSize,
                          RDiv(RMul(d, RSub(R(lastOp'.point.y), resizeState.startY)),
                               viewTransform.scale))
          IN  /\ LayerById(state', resizeState.layerId).fontSize =
                    IF RLt(raw, R(12)) THEN R(12) ELSE raw
              /\ resizeState' = resizeState

\* C26: a move of a layer corner resize changes only the fontSize of the layer
\* whose handle was pressed: its other fields, every other layer, the selection,
\* the background and its transform, the mask and the view are unchanged.
C26_ResizeChangesFontSizeOnly ==
    [][/\ lastOp'.name = "handleResizeMouseDown" =>
             /\ state' = state
             /\ resizeState'.layerId = state.selectedLayerId
       /\ lastOp'.name = "handleMouseMove" /\ lastOp'.gesture = "layer-resize" =>
             /\ state' =
                   [state EXCEPT !.layers =
                       [i \in DOMAIN state.layers |->
                           IF state.layers[i].id = resizeState.layerId
                           THEN [state.layers[i] EXCEPT
                                    !.fontSize = state'.layers[i].fontSize]
                           ELSE state.layers[i]]]
             /\ viewTransform' = viewTransform]_vars

\* Of two layers, the one whose handle was pressed and that is not selected any
\* more (a layer was added during the gesture) was resized.
C26_Witness ==
    /\ lastOp.name = "handleMouseMove"
    /\ lastOp.gesture = "layer-resize"
    /\ Len(state.layers) = 2
    /\ \E i \in DOMAIN state.layers :
          /\ state.layers[i].id = resizeState.layerId
          /\ state.layers[i].fontSize # R(48)
          /\ state.layers[i].id # state.selectedLayerId

\* C25: during a layer corner resize each move sets fontSize = max(12,
\* startFontSize + d * (clientY - startY) / scale), d = 1 for the bottom handles
\* and -1 for the top handles, from the values captured at the press; the stored
\* font size is never below 12.
C25_ResizeFontSize == [] FontSizesAtLeast12 /\ [][ResizeStep]_vars

\* A resize by a top handle moved down far enough to reach the minimum.
C25_Witness ==
    /\ lastOp.name = "handleMouseMove"
    /\ lastOp.gesture = "layer-resize"
    /\ resizeState.handle = "tl"
    /\ lastOp.point.y > 0
    /\ resizeState.layerId \in LayerIdsOf(state.layers)
    /\ LayerById(state, resizeState.layerId).fontSize = R(12)

\* C36: the cover scale stored when an uploaded image has been decoded is the
\* one for the aspect ratio current at that moment, also when the ratio was
\* changed between the choice of the file and the end of the decode.
C36_CoverScaleOfCurrentRatio ==
    lastOp.name = "imgOnload" =>
        state.backgroundTransform.scale = CoverScale(state.aspectRatio, lastOp.image)

\* C34: in every state the UI can reach, selectedLayerId is null or the id of a
\* layer of the collection: no selection dangles after an add, a delete, a drag,
\* a resize, a mask toggle or an image load.
C34_SelectionNotDangling ==
    state.selectedLayerId = null \/ state.selectedLayerId \in LayerIdsOf(state.layers)

\* The selected layer of two was deleted: a layer is left and none is selected.
C34_Witness ==
    /\ lastOp.name = "deleteLayer"
    /\ Len(state.layers) = 1
    /\ lastOp.id \notin LayerIdsOf(state.layers)
    /\ state.selectedLayerId = null

\* C1: in every state the UI can reach, mask mode and a selected layer do not
\* coexist: isMaskMode implies selectedLayerId = null, and the state that
\* toggleMaskMode(true) leaves has selectedLayerId = null.
C1_MaskModeExcludesSelection ==
    /\ state.isMaskMode => state.selectedLayerId = null
    /\ (lastOp.name = "toggleMaskMode" /\ lastOp.active) => state.selectedLayerId = null

\* Mask mode was entered while the document holds layers.
C1_Witness ==
    /\ lastOp.name = "toggleMaskMode"
    /\ lastOp.active
    /\ state.isMaskMode
    /\ Len(state.layers) > 0

\* The width and the height of a mask are at least 20.
MaskAtLeast20 ==
    state.maskRect # NoRect =>
        /\ RLe(R(20), state.maskRect.width)
        /\ RLe(R(20), state.maskRect.height)

\* A step that is not a mask-resize move does not lower the size of a mask.
OnlyResizeLowersMask ==
    (/\ state.maskRect # NoRect
     /\ state'.maskRect # NoRect
     /\ ~(lastOp'.name = "handleMouseMove" /\ lastOp'.gesture = "resize"))
    => /\ RLe(state.maskRect.width, state'.maskRect.width)
       /\ RLe(state.maskRect.height, state'.maskRect.height)

\* C8: in every reachable state with a mask, its width and its height are at
\* least 20, whatever the pointer deltas of the mask-resize moves; and no other
\* operation (mask drag, relocation by a click, mode toggle) lowers them.
C8_MaskAtLeast20 == [] MaskAtLeast20 /\ [][OnlyResizeLowersMask]_vars

\* A mask-resize move whose delta would take the width below 20, and did not.
C8_Witness ==
    /\ lastOp.name = "handleMouseMove"
    /\ lastOp.gesture = "resize"
    /\ state.maskRect # NoRect
    /\ state.maskRect.width = R(20)
    /\ state.maskRect.height = R(20)

\* The viewport the specification names for an aspect ratio: 600 x 600 or 337.5 x 600.
ViewportWidth(ratio) == IF ratio = SQUARE THEN R(600) ELSE Rat(675, 2)

ViewportHeight(ratio) == R(600)

\* C9: when an uploaded image of natural size (Iw, Ih) has loaded, the background
\* transform is {x: 0, y: 0, scale: max(Vw/Iw, Vh/Ih)} for the viewport (Vw, Vh)
\* of the aspect ratio the upload handler read, the scaled image covers the
\* viewport, mask mode is off and maskRect is null.
C9_UploadCoverScale ==
    lastOp.name = "imgOnload" =>
        LET Iw == R(NaturalWidth(lastOp.image))
            Ih == R(NaturalHeight(lastOp.image))
            Vw == ViewportWidth(lastOp.ratio)
            Vh == ViewportHeight(lastOp.ratio)
            scale == state.backgroundTransform.scale
        IN  /\ state.backgroundImage = lastOp.image
            /\ state.backgroundTransform.x = R(0)
            /\ state.backgroundTransform.y = R(0)
            /\ scale = RMax(RDiv(Vw, Iw), RDiv(Vh, Ih))
            /\ RLe(Vw, RMul(Iw, scale))
            /\ RLe(Vh, RMul(Ih, scale))
            /\ ~state.isMaskMode
            /\ state.maskRect = NoRect

\* A portrait image has loaded for the story format: the width decides the
\* scale, 337.5 / 300.
C9_Witness ==
    /\ lastOp.name = "imgOnload"
    /\ lastOp.ratio = STORY
    /\ lastOp.image = "imgB"
    /\ state.backgroundTransform.scale = Rat(9, 8)

\* C10: when the result of the AI removal replaces the background image, the
\* background transform is the cover scale of the new image with zero offset,
\* and mask mode is off with no mask.
C10_RemovalRecomputesCover ==
    (lastOp.name = "handleConfirmRemoval" /\ lastOp.result # null) =>
        /\ state.backgroundImage = lastOp.result
        /\ state.backgroundTransform =
              [x |-> R(0), y |-> R(0),
               scale |-> CoverScale(state.aspectRatio, lastOp.result)]
        /\ ~state.isMaskMode
        /\ state.maskRect = NoRect

\* C11: a pointer-move with screen movement (dx, dy) during a text-layer drag at
\* view scale s adds exactly (dx/s, dy/s) to the (x, y) of the dragged layer,
\* whatever the background transform is, and changes nothing else of the state:
\* no other field of the layer, no other layer, no background or mask field.
C11_LayerDragByScreenDelta ==
    [][(lastOp'.name = "handleMouseMove" /\ lastOp'.gesture = "layer-drag") =>
          LET dx == R(lastOp'.movement.x)
              dy == R(lastOp'.movement.y)
              s == viewTransform.scale
              moved(l) == [l EXCEPT !.x = RAdd(@, RDiv(dx, s)),
                                    !.y = RAdd(@, RDiv(dy, s))]
          IN  state' = [state EXCEPT !.layers =
                           [i \in DOMAIN state.layers |->
                               IF state.layers[i].id = state.selectedLayerId
                               THEN moved(state.layers[i])
                               ELSE state.layers[i]]]]_vars

\* A layer was dragged by (9, -18) at view scale 0.9 over a background shown at
\* scale 2, next to a second layer: it went from (50, 50) to (60, 30).
C11_Witness ==
    /\ lastOp.name = "handleMouseMove"
    /\ lastOp.gesture = "layer-drag"
    /\ state.backgroundTransform.scale = R(2)
    /\ viewTransform.scale = Rat(9, 10)
    /\ Len(state.layers) = 2
    /\ SelectedLayerExists
    /\ SelectedLayer.x = R(60)
    /\ SelectedLayer.y = R(30)

\* C16: a failed image load (an unreadable file, an image that does not decode)
\* leaves the whole CanvasState as it was: background image and transform, mask
\* state, layers and selection.
C16_FailedUploadKeepsState ==
    [][lastOp'.name = "uploadFailed" => state' = state]_vars

\* The load of a second image failed while the first one was shown in mask mode,
\* with a layer on the canvas.
C16_Witness ==
    /\ lastOp.name = "uploadFailed"
    /\ lastOp.image = "imgB"
    /\ state.backgroundImage = "imgA"
    /\ state.isMaskMode
    /\ state.maskRect # NoRect
    /\ Len(state.layers) > 0

\* C18: when the inpainting call fails (no client, a thrown error, a response with
\* no image) removeImageWatermark resolves to null, the user is notified, and the
\* handling of the failure changes nothing of the CanvasState (background image,
\* mask mode, mask rectangle) and enables the confirm control again.
C18_FailedRemovalKeepsMask ==
    /\ [] (\A o \in RemovalOutcomes :
              (o.kind # "response"
               \/ \A i \in DOMAIN o.parts : "inlineData" \notin DOMAIN o.parts[i])
              => removeImageWatermark(o) = null)
    /\ [][(lastOp'.name = "handleConfirmRemoval" /\ lastOp'.result = null) =>
             /\ lastOp'.alert
             /\ state' = state
             /\ ~isRemovingWatermark']_vars

\* A request that threw was handled with the mask still in place: mask mode is on,
\* the mask and the image are there, and the confirm control is enabled.
C18_Witness ==
    /\ lastOp.name = "handleConfirmRemoval"
    /\ lastOp.outcome = "throws"
    /\ lastOp.result = null
    /\ lastOp.alert
    /\ state.backgroundImage = "imgA"
    /\ state.isMaskMode
    /\ state.maskRect = DefaultMask
    /\ ~isRemovingWatermark

(***************************************************************************)
(* UpdateSpec: sequences of updateLayer calls on a canvas of two layers    *)
(* (the state after two addLayer calls), each call recorded in calls.      *)
(***************************************************************************)
MaxCalls == 3

UpdateInitState == addLayer(addLayer(InitialState, "L1"), "L2")

\* Partial<TextLayer> values: disjoint fields, the same field twice, and the id field.
UpdatePartials ==
    {[text |-> "A"],
     [text |-> "B", color |-> "#000000"],
     [x |-> R(10), y |-> R(20)],
     [fontSize |-> R(12)],
     [id |-> "L2"],
     [id |-> "L3", text |-> "C"]}

UpdateInit ==
    /\ state = UpdateInitState
    /\ InitUi
    /\ InitExport
    /\ InitCopy
    /\ lastOp = [name |-> "init"]
    /\ pre = UpdateInitState
    /\ calls = <<>>

UpdateCall ==
    /\ Len(calls) < MaxCalls
    /\ \E id \in LayerIds, u \in UpdatePartials :
          /\ state' = updateLayer(state, id, u)
          /\ lastOp' = [name |-> "updateLayer", id |-> id, updates |-> u]
          /\ pre' = state
          /\ calls' = Append(calls, [id |-> id, updates |-> u])
          /\ UNCHANGED <<viewTransform, gestureVars, asyncVars, idCount, events,
                         pressed, listener, exportVars, copyVars>>

UpdateNext == UpdateCall

UpdateSpec == UpdateInit /\ [][UpdateNext]_vars

(***************************************************************************)
(* Claims on the store operations (StoreSpec).                             *)
(***************************************************************************)

\* C33: a mask exists exactly while mask mode is active: maskRect is non-null
\* if and only if isMaskMode is true, so every operation that leaves mask mode
\* (toggleMaskMode(false), addLayer, a new background image) destroys the mask.
C33_MaskExistsIffMaskMode == (state.maskRect # NoRect) <=> state.isMaskMode

\* C2: selectLayer(id) with the id of a layer, called while mask mode is active,
\* leaves isMaskMode false.  (The claim as stated; the code leaves isMaskMode alone.)
C2_SelectLayerExitsMaskMode ==
    (/\ lastOp.name = "selectLayer"
     /\ lastOp.id \in LayerIdsOf(pre.layers)
     /\ pre.isMaskMode)
        => ~state.isMaskMode

\* The sequence seq without its i-th element.
WithoutIndex(seq, i) ==
    [j \in 1..(Len(seq) - 1) |-> IF j < i THEN seq[j] ELSE seq[j + 1]]

\* C3: deleteLayer(id) for an id in the collection removes exactly that layer, keeps
\* the other layers unchanged and in order, and sets selectedLayerId to null whatever
\* was selected before.
C3_DeleteRemovesExactlyThatLayer ==
    (lastOp.name = "deleteLayer" /\ lastOp.id \in LayerIdsOf(pre.layers))
        => /\ \E i \in DOMAIN pre.layers :
                /\ pre.layers[i].id = lastOp.id
                /\ state.layers = WithoutIndex(pre.layers, i)
           /\ state.selectedLayerId = null

\* C3 witness: a layer is deleted while the other of two layers is selected.
C3_Witness ==
    /\ lastOp.name = "deleteLayer"
    /\ Len(pre.layers) = 2
    /\ lastOp.id = pre.layers[1].id
    /\ pre.selectedLayerId = pre.layers[2].id
    /\ Len(state.layers) = 1

\* C4: deleteLayer(id) for an id not in the collection leaves the whole CanvasState,
\* selectedLayerId included, unchanged.  (The claim as stated; the code clears the
\* selection in every case.)
C4_DeleteMissingIsNoOp ==
    (lastOp.name = "deleteLayer" /\ lastOp.id \notin LayerIdsOf(pre.layers))
        => state = pre

C7_UpdateMaskRect ==
    lastOp.name = "updateMaskRect"
        => /\ pre.maskRect = NoRect => state = pre
           /\ pre.maskRect # NoRect
                => /\ DOMAIN state.maskRect = {"x", "y", "width", "height"}
                   /\ \A f \in DOMAIN state.maskRect :
                        state.maskRect[f] = IF f \in DOMAIN lastOp.updates
                                             THEN lastOp.updates[f]
                                             ELSE pre.maskRect[f]
                   /\ state = [pre EXCEPT !.maskRect = state.maskRect]

\* C7 witness: a width-only partial is applied to a mask that had been moved.
C7_Witness ==
    /\ lastOp.name = "updateMaskRect"
    /\ lastOp.updates = [width |-> R(40)]
    /\ pre.maskRect # NoRect
    /\ pre.maskRect.x = R(5)
    /\ pre.maskRect.width = R(200)
    /\ state.maskRect.x = R(5)

\* C7 second case reached: the partial arrives while no mask exists.
C7_NullCaseReached ==
    lastOp.name = "updateMaskRect" /\ pre.maskRect = NoRect

(***************************************************************************)
(* Claims on sequences of updateLayer calls (UpdateSpec).                  *)
(***************************************************************************)

\* The value the last partial of seq that names field f gives it, or default.
RECURSIVE LastNaming(_, _, _)
LastNaming(f, seq, default) ==
    IF seq = <<>> THEN default
    ELSE IF f \in DOMAIN seq[Len(seq)].updates
         THEN seq[Len(seq)].updates[f]
         ELSE LastNaming(f, SubSeq(seq, 1, Len(seq) - 1), default)

CallAddresses(c, id) == c.id = id

\* The calls made on the layer created with this id.
CallsOn(id) == SelectSeq(calls, LAMBDA c : CallAddresses(c, id))

\* Field-wise union, last write wins, of the calls made on layer l0.
ExpectedLayer(l0) == [f \in DOMAIN l0 |-> LastNaming(f, CallsOn(l0.id), l0[f])]

LastWriteWinsLaw ==
    /\ Len(state.layers) = Len(UpdateInitState.layers)
    /\ \A i \in DOMAIN UpdateInitState.layers :
          state.layers[i] = ExpectedLayer(UpdateInitState.layers[i])
    /\ state = [UpdateInitState EXCEPT !.layers = state.layers]
    /\ (lastOp.name = "updateLayer" /\ lastOp.id \notin LayerIdsOf(pre.layers))
          => state = pre

NoPartialNamesId == \A i \in DOMAIN calls : "id" \notin DOMAIN calls[i].updates

=============================================================================
